---- MODULE Spec2Model ----
(***************************************************************************)
(* A model of the Q&A corrector: the question parser, the oracle round     *)
(* trip and checkpointed batch loop of Qa_corrector.py, and the            *)
(* solver / validator / corrector / background processor of the JSON       *)
(* pipeline.  Each part has its own specification over its own variables;  *)
(* the variables of the other parts stay at their initial value.           *)
(***************************************************************************)
EXTENDS Integers, Sequences, FiniteSets, TLC

VARIABLES
    \* ---- parse_questions_and_answers ----
    text,              \* the input text, one token per line
    parsePc,           \* "begin" | "scan" | "done"
    lineNo,            \* index of the next line of the scan
    questions,         \* the list of emitted Question records
    answer_key,        \* dict: question number -> letter
    current_question,  \* None or the text accumulated so far
    current_options,   \* dict: letter -> option text
    question_num,
    in_answer_key,
    current_category,
    aliased,           \* indices of questions whose options dict IS current_options
    firstCall,         \* what an earlier call on the same text returned
    \* ---- process_pdf ----
    seed,              \* selects the (deterministic) oracle's replies
    faultAt,           \* number of the question whose round trip raises (0: none)
    total,             \* number of parsed questions of the document
    resume,            \* the resume argument of the current run
    pdfPc,             \* position of the current run of process_pdf
    pq,                \* the run's questions list
    idx,               \* loop index i
    ckpt,              \* the checkpoint file
    loadedIdx,         \* last_idx returned by this run's load_checkpoint
    sentNow,           \* indices sent to the oracle in the current run
    judgedBefore,      \* indices whose judgment completed in an earlier run
    \* ---- QAProcessor ----
    qaQuestions,       \* self.questions
    auto_correct,      \* the auto_correct argument
    results,           \* self.results
    corrections,       \* self.corrections
    is_running,        \* self._is_running
    should_stop,       \* self._should_stop
    current_index,     \* self._current_index
    qaPc,              \* position of process_all or of the worker thread
    qaI,               \* loop index i
    progress,          \* what the last get_progress returned
    stop_called,       \* stop_processing was called since the thread was started
    lock,              \* holder of self._lock: "free" | "worker" | "main"
    gpPc,              \* the main thread's position in get_progress
    gpIndex,           \* the _current_index get_progress has read
    replies,           \* the matching replies the oracle gave for the results
    raisedAt,          \* positions of the questions whose processing raised
    \* ---- QuestionCorrector ----
    cQuestions,        \* the questions argument
    cCorrections,      \* the corrections argument
    cPc,               \* "ready" | "applied" | "saved"
    cArgs,             \* <<i, j>>: apply_correction(questions[i], corrections[j])
    cInput,            \* the argument objects as they are after the call
    cOutput,           \* the returned question(s)
    \* ---- normalize_letter ----
    nInput,            \* the argument of the first call
    nPc,               \* "ready" | "once" | "twice"
    nOnce,             \* normalize_letter(nInput)
    nTwice,            \* normalize_letter(nOnce)
    \* ---- the category test of a numbered line ----
    catRest,           \* the words of the rest of the numbered line
    catPc,             \* "ready" | "classified"
    catLabel           \* the rest was taken as a category label

parseVars == <<text, parsePc, lineNo, questions, answer_key, current_question,
               current_options, question_num, in_answer_key, current_category,
               aliased, firstCall>>
pdfVars == <<seed, faultAt, total, resume, pdfPc, pq, idx, ckpt, loadedIdx,
             sentNow, judgedBefore>>
qaVars == <<qaQuestions, auto_correct, results, corrections, is_running,
            should_stop, current_index, qaPc, qaI, progress, stop_called,
            lock, gpPc, gpIndex, replies, raisedAt>>
corrVars == <<cQuestions, cCorrections, cPc, cArgs, cInput, cOutput>>
normVars == <<nInput, nPc, nOnce, nTwice>>
catVars == <<catRest, catPc, catLabel>>
vars == <<parseVars, pdfVars, qaVars, corrVars, normVars, catVars>>

(***************************************************************************)
(* Python values.  None is a value of its own; a dict is a function whose  *)
(* domain is its key set.                                                  *)
(***************************************************************************)
NoneVal == "<None>"
EmptyMap == [x \in {} |-> ""]
Put(m, k, v) == [x \in (DOMAIN m) \cup {k} |-> IF x = k THEN v ELSE m[x]]

\* Upper-case and lower-case ASCII letters used by the model's strings.
UpperChars == {"A", "B", "C", "D", "E", "K", "L", "M", "N", "S", "T", "U", "W", "Z"}
LowerOf ==
    [c \in UpperChars |->
        CASE c = "A" -> "a" [] c = "B" -> "b" [] c = "C" -> "c" [] c = "D" -> "d"
          [] c = "E" -> "e" [] c = "K" -> "k" [] c = "L" -> "l" [] c = "M" -> "m"
          [] c = "N" -> "n" [] c = "S" -> "s" [] c = "T" -> "t" [] c = "U" -> "u"
          [] c = "W" -> "w" [] c = "Z" -> "z"]
LowerChars == {LowerOf[c] : c \in UpperChars}

\* str.upper() and str.lower() on one character.
Upper(c) == IF c \in LowerChars THEN CHOOSE u \in UpperChars : LowerOf[u] = c ELSE c
Lower(c) == IF c \in UpperChars THEN LowerOf[c] ELSE c

\* The stylized glyphs of normalize_letter's table: mathematical italic,
\* bold italic and bold capitals A-D, named here by style and letter.
GlyphStyles == {"italic", "bolditalic", "bold"}
Glyph(style, letter) == "<" \o style \o " " \o letter \o ">"
GlyphTable ==
    [g \in {Glyph(s, l) : s \in GlyphStyles, l \in {"A", "B", "C", "D"}} |->
        CHOOSE l \in {"A", "B", "C", "D"} : \E s \in GlyphStyles : g = Glyph(s, l)]

\* normalize_letter with a table of lower-case targets.
normalize_letter_table_lower(letter) ==
    IF letter \in DOMAIN GlyphTable THEN Lower(GlyphTable[letter]) ELSE Upper(letter)

normalize_letter(letter) ==
    IF letter \in DOMAIN GlyphTable THEN GlyphTable[letter] ELSE Upper(letter)

(***************************************************************************)
(* The Question dataclass of Qa_corrector.py.  text is the list of the     *)
(* parts joined by " " (<< >> is the empty string).                        *)
(***************************************************************************)
Question(number, category, txt, options, provided) ==
    [number |-> number, category |-> category, text |-> txt, options |-> options,
     provided_answer |-> provided,
     calculated_answer |-> NoneVal, calculated_value |-> NoneVal,
     is_correct |-> NoneVal, confidence |-> "high", correction_type |-> NoneVal,
     suggested_correction |-> NoneVal, notes |-> ""]

(***************************************************************************)
(* Lines of the input text.  A line is a token [k, n, l, r]: its kind, the *)
(* number it starts with, the letter it carries and the rest of the line.  *)
(* Every line ends with a newline, as extract_text_from_pdf produces it.   *)
(*   AnswerKey       "Answer Key"                                          *)
(*   Test            "Test 2"                                              *)
(*   KeyEntry        "<n>. <l>"                                            *)
(*   InlineNumbered  "<n>. Answer: <l>"                                    *)
(*   CorrectAnswer   "Correct Answer: <l>"                                 *)
(*   Question        "<n>. <r>"                                            *)
(*   Option          "<l>) <r>"                                            *)
(*   Text            "<r>"                                                 *)
(***************************************************************************)
Line(k, n, l, r) == [k |-> k, n |-> n, l |-> l, r |-> r]
AnswerKeyLine == Line("AnswerKey", 0, "", "Answer Key")
TestLine == Line("Test", 0, "", "Test 2")
KeyEntryLine(n, l) == Line("KeyEntry", n, l, l)
InlineNumberedLine(n, l) == Line("InlineNumbered", n, l, "Answer: " \o l)
CorrectAnswerLine(l) == Line("CorrectAnswer", 0, l, "")
QuestionLine(n, r) == Line("Question", n, "", r)
OptionLine(l, r) == Line("Option", 0, l, r)
TextLine == Line("Text", 0, "", "some text")

\* The characters of the strings that can follow "<n>. " on a numbered line.
CharsOf(s) ==
    CASE s = "What is x?" -> <<"W", "h", "a", "t", " ", "i", "s", " ", "x", "?">>
      [] s = "Statics" -> <<"S", "t", "a", "t", "i", "c", "s">>
      [] s = "Answer: C" -> <<"A", "n", "s", "w", "e", "r", ":", " ", "C">>
      [] OTHER -> <<s>>

\* A line matching ^(\d+)\.\s*(.*) and the stripped group 2 of the match.
IsNumbered(ln) == ln.k \in {"KeyEntry", "InlineNumbered", "Question"}
Remaining(ln) == ln.r

Min(S) == CHOOSE x \in S : \A y \in S : x <= y

(***************************************************************************)
(* Format 1: the section after the first "Answer Key" heading, up to the   *)
(* next "Test N" heading or the end of the text.  The heading's regex      *)
(* consumes the newline that ends the heading line, and the lookahead      *)
(* that ends the section needs a newline before "Test N": a "Test N" line  *)
(* right after the heading is part of the section and does not end it.     *)
(***************************************************************************)
AnswerSection(t) ==
    LET heads == {i \in 1..Len(t) : t[i].k = "AnswerKey"}
    IN  IF heads = {} THEN << >>
        ELSE LET a == Min(heads)
                 tests == {j \in (a + 2)..Len(t) : t[j].k = "Test"}
                 e == IF tests = {} THEN Len(t) + 1 ELSE Min(tests)
             IN  SubSeq(t, a + 1, e - 1)

\* The class [A-Da-d] plus the bold italic capitals of the section's regex.
BlockLetterClass ==
    {"A", "B", "C", "D", "a", "b", "c", "d"}
        \cup {Glyph("bolditalic", l) : l \in {"A", "B", "C", "D"}}

\* (\d+)\s*[.\)]\s*([A-Da-d...]) on one line of the section: the letter is
\* the first character after "<n>. ".
HasBlockEntry(ln) == IsNumbered(ln) /\ CharsOf(Remaining(ln))[1] \in BlockLetterClass

RECURSIVE BlockKey(_, _)
BlockKey(section, ak) ==
    IF section = << >> THEN ak
    ELSE LET ln == Head(section)
             letter == normalize_letter(CharsOf(Remaining(ln))[1])
         IN  BlockKey(Tail(section),
                      IF HasBlockEntry(ln) THEN Put(ak, ln.n, Upper(letter)) ELSE ak)

\* Format 2: (\d+)\.\s*(?:Correct\s*)?Answer[:\s]+([A-Da-d]) anywhere in the
\* text; fills only the numbers format 1 has not set.
RECURSIVE InlineKey(_, _)
InlineKey(t, ak) ==
    IF t = << >> THEN ak
    ELSE LET ln == Head(t)
         IN  InlineKey(Tail(t),
                       IF ln.k = "InlineNumbered" /\ ln.n \notin DOMAIN ak
                       THEN Put(ak, ln.n, Upper(ln.l)) ELSE ak)

PrePass(t) == InlineKey(t, BlockKey(AnswerSection(t), EmptyMap))

(***************************************************************************)
(* The category heuristic of a numbered line (lines 167-176).              *)
(***************************************************************************)
Markers ==
    { <<"?">>, <<"w", "h", "a", "t">>, <<"w", "h", "i", "c", "h">>, <<"h", "o", "w">>,
      <<"f", "i", "n", "d">>, <<"s", "o", "l", "v", "e">>,
      <<"c", "a", "l", "c", "u", "l", "a", "t", "e">>,
      <<"e", "v", "a", "l", "u", "a", "t", "e">>,
      <<"d", "e", "t", "e", "r", "m", "i", "n", "e">>, <<"i", "f">>, <<"a", "n">>,
      <<"t", "h", "e">>, <<"a", " ">> }
Digits == {"0", "1", "2", "3", "4", "5", "6", "7", "8", "9"}
Contains(cs, sub) ==
    \E i \in 1..(Len(cs) - Len(sub) + 1) : SubSeq(cs, i, i + Len(sub) - 1) = sub
LowerAll(cs) == [i \in 1..Len(cs) |-> Lower(cs[i])]
WordCount(cs) ==
    Cardinality({i \in 1..Len(cs) : cs[i] # " " /\ (i = 1 \/ cs[i - 1] = " ")})
IsUpperChar(c) == c \in UpperChars \/ c \in DOMAIN GlyphTable
\* Lines 168-170 on the characters of a non-empty remaining.
IsCategoryChars(cs) ==
    /\ ~ \E m \in Markers : Contains(LowerAll(cs), m)
    /\ WordCount(cs) <= 3
    /\ IsUpperChar(cs[1])
    /\ ~ \E i \in 1..Len(cs) : cs[i] \in Digits
IsCategoryLabel(remaining) == remaining # "" /\ IsCategoryChars(CharsOf(remaining))

(***************************************************************************)
(* save_question and the flush that guards it (lines 137, 160, 194).       *)
(* current_question is None (NoText), "" (<< >>) or the list of its parts. *)
(***************************************************************************)
NoText == <<NoneVal>>
Truthy(cq) == cq # NoText /\ cq # << >>

\* save_question without its guard on the number.
save_question_any_number(qs, num, category, txt, options, ak) ==
    IF options # EmptyMap
    THEN Append(qs, Question(num, category, txt, options,
                             IF num \in DOMAIN ak THEN ak[num] ELSE "?"))
    ELSE qs

\* Saving only the questions the answer key knows.
save_question_keyed(qs, num, category, txt, options, ak) ==
    IF num > 0 /\ options # EmptyMap /\ num \in DOMAIN ak
    THEN Append(qs, Question(num, category, txt, options, ak[num]))
    ELSE qs

save_question(qs, num, category, txt, options, ak) ==
    IF num > 0 /\ options # EmptyMap
    THEN Append(qs, Question(num, category, txt, options,
                             IF num \in DOMAIN ak THEN ak[num] ELSE "?"))
    ELSE qs

Flush(qs) ==
    IF Truthy(current_question) /\ current_options # EmptyMap
    THEN save_question(qs, question_num, current_category, current_question,
                       current_options, answer_key)
    ELSE qs

\* The questions a flush appended: their options dict is current_options itself.
Appended(qs, qs2) == (Len(qs) + 1)..Len(qs2)

(***************************************************************************)
(* parse_questions_and_answers: the two regex passes, then the line scan,  *)
(* one action per branch of the loop body, then the epilogue.              *)
(***************************************************************************)
\* No earlier call.
NoCall == <<NoneVal>>

ParseBegin ==
    /\ parsePc = "begin"
    /\ answer_key' = PrePass(text)
    /\ parsePc' = "scan"
    /\ UNCHANGED <<text, lineNo, questions, current_question, current_options,
                   question_num, in_answer_key, current_category, aliased>>
    /\ UNCHANGED firstCall
    /\ UNCHANGED <<pdfVars, qaVars, corrVars, normVars, catVars>>

Scanning == parsePc = "scan" /\ lineNo <= Len(text)

ScanAnswerKeyHeading ==
    /\ Scanning
    /\ text[lineNo].k = "AnswerKey"
    /\ in_answer_key' = TRUE
    /\ questions' = Flush(questions)
    /\ aliased' = aliased \cup Appended(questions, questions')
    /\ lineNo' = lineNo + 1
    /\ UNCHANGED <<text, parsePc, answer_key, current_question, current_options,
                   question_num, current_category>>
    /\ UNCHANGED firstCall
    /\ UNCHANGED <<pdfVars, qaVars, corrVars, normVars, catVars>>

\* The block left at a numbered line as well.
ScanInsideAnswerKey_until_numbered ==
    /\ Scanning
    /\ text[lineNo].k # "AnswerKey"
    /\ in_answer_key
    /\ in_answer_key' = (text[lineNo].k # "Test" /\ ~IsNumbered(text[lineNo]))
    /\ lineNo' = lineNo + 1
    /\ UNCHANGED <<text, parsePc, questions, answer_key, current_question,
                   current_options, question_num, current_category, aliased>>
    /\ UNCHANGED firstCall
    /\ UNCHANGED <<pdfVars, qaVars, corrVars, normVars, catVars>>

ScanInsideAnswerKey ==
    /\ Scanning
    /\ text[lineNo].k # "AnswerKey"
    /\ in_answer_key
    /\ in_answer_key' = (text[lineNo].k # "Test")
    /\ lineNo' = lineNo + 1
    /\ UNCHANGED <<text, parsePc, questions, answer_key, current_question,
                   current_options, question_num, current_category, aliased>>
    /\ UNCHANGED firstCall
    /\ UNCHANGED <<pdfVars, qaVars, corrVars, normVars, catVars>>

ScanCorrectAnswer ==
    /\ Scanning
    /\ ~in_answer_key
    /\ text[lineNo].k = "CorrectAnswer"
    /\ answer_key' = IF question_num > 0
                      THEN Put(answer_key, question_num, Upper(text[lineNo].l))
                      ELSE answer_key
    /\ lineNo' = lineNo + 1
    /\ UNCHANGED <<text, parsePc, questions, current_question, current_options,
                   question_num, in_answer_key, current_category, aliased>>
    /\ UNCHANGED firstCall
    /\ UNCHANGED <<pdfVars, qaVars, corrVars, normVars, catVars>>

ScanNewQuestion ==
    /\ Scanning
    /\ ~in_answer_key
    /\ IsNumbered(text[lineNo])
    /\ questions' = Flush(questions)
    /\ question_num' = text[lineNo].n
    /\ LET remaining == Remaining(text[lineNo])
       IN  IF IsCategoryLabel(remaining)
           THEN current_category' = remaining /\ current_question' = << >>
           ELSE /\ current_question' = IF remaining = "" THEN << >> ELSE <<remaining>>
                /\ UNCHANGED current_category
    /\ current_options' = EmptyMap
    /\ aliased' = {}
    /\ lineNo' = lineNo + 1
    /\ UNCHANGED <<text, parsePc, answer_key, in_answer_key>>
    /\ UNCHANGED firstCall
    /\ UNCHANGED <<pdfVars, qaVars, corrVars, normVars, catVars>>

ScanOption ==
    /\ Scanning
    /\ ~in_answer_key
    /\ text[lineNo].k = "Option"
    /\ current_options' =
           Put(current_options, normalize_letter(text[lineNo].l), text[lineNo].r)
    /\ questions' = [i \in DOMAIN questions |->
                        IF i \in aliased
                        THEN [questions[i] EXCEPT !.options = current_options']
                        ELSE questions[i]]
    /\ lineNo' = lineNo + 1
    /\ UNCHANGED <<text, parsePc, answer_key, current_question, question_num,
                   in_answer_key, current_category, aliased>>
    /\ UNCHANGED firstCall
    /\ UNCHANGED <<pdfVars, qaVars, corrVars, normVars, catVars>>

\* Continuation lines accumulated after the options too.
ScanContinuation_after_options ==
    /\ Scanning
    /\ ~in_answer_key
    /\ text[lineNo].k \in {"Text", "Test"}
    /\ current_question' =
           IF current_question # NoText
           THEN Append(current_question, text[lineNo].r)
           ELSE current_question
    /\ lineNo' = lineNo + 1
    /\ UNCHANGED <<text, parsePc, questions, answer_key, current_options,
                   question_num, in_answer_key, current_category, aliased>>
    /\ UNCHANGED firstCall
    /\ UNCHANGED <<pdfVars, qaVars, corrVars, normVars, catVars>>

\* Any other line: a continuation of the question text while no option has
\* been recorded.
ScanContinuation ==
    /\ Scanning
    /\ ~in_answer_key
    /\ text[lineNo].k \in {"Text", "Test"}
    /\ current_question' =
           IF current_question # NoText /\ current_options = EmptyMap
           THEN Append(current_question, text[lineNo].r)
           ELSE current_question
    /\ lineNo' = lineNo + 1
    /\ UNCHANGED <<text, parsePc, questions, answer_key, current_options,
                   question_num, in_answer_key, current_category, aliased>>
    /\ UNCHANGED firstCall
    /\ UNCHANGED <<pdfVars, qaVars, corrVars, normVars, catVars>>

\* Lines 198-208: with an empty answer key, every "Correct Answer: X" of the
\* text in document order, numbered from 1.
\* The fallback keeping the letters as they are written.
RECURSIVE SequentialKey_as_written(_, _, _)
SequentialKey_as_written(t, n, ak) ==
    IF t = << >> THEN ak
    ELSE IF Head(t).k = "CorrectAnswer"
         THEN SequentialKey_as_written(Tail(t), n + 1, Put(ak, n, Head(t).l))
         ELSE SequentialKey_as_written(Tail(t), n, ak)

RECURSIVE SequentialKey(_, _, _)
SequentialKey(t, n, ak) ==
    IF t = << >> THEN ak
    ELSE IF Head(t).k = "CorrectAnswer"
         THEN SequentialKey(Tail(t), n + 1, Put(ak, n, Upper(Head(t).l)))
         ELSE SequentialKey(Tail(t), n, ak)

\* The epilogue leaving the records as save_question built them.
update_provided_never(qs, ak) == qs

\* Lines 211-213.
update_provided(qs, ak) ==
    [i \in DOMAIN qs |->
        IF qs[i].number \in DOMAIN ak
        THEN [qs[i] EXCEPT !.provided_answer = ak[qs[i].number]]
        ELSE qs[i]]

ParseFinish ==
    /\ parsePc = "scan"
    /\ lineNo > Len(text)
    /\ LET qs == Flush(questions)
           ak == IF answer_key = EmptyMap THEN SequentialKey(text, 1, EmptyMap)
                 ELSE answer_key
       IN  /\ answer_key' = ak
           /\ questions' = update_provided(qs, ak)
    /\ parsePc' = "done"
    /\ UNCHANGED <<text, lineNo, current_question, current_options, question_num,
                   in_answer_key, current_category, aliased>>
    /\ UNCHANGED firstCall
    /\ UNCHANGED <<pdfVars, qaVars, corrVars, normVars, catVars>>

(***************************************************************************)
(* The parser's specification: every text of at most MaxLines lines over   *)
(* the alphabet below.                                                     *)
(***************************************************************************)

\* The questions list shared with the previous call.
entry_questions_shared(previous) == previous

\* Line 83: every call starts with a list of its own.
entry_questions(previous) == << >>

\* The function has returned and is called again on the same text: lines
\* 83-84 and 123-129 give the call its own locals.
ParseAgain ==
    /\ parsePc = "done"
    /\ firstCall = NoCall
    /\ firstCall' = <<questions, answer_key>>
    /\ questions' = entry_questions(questions)
    /\ answer_key' = EmptyMap
    /\ current_question' = NoText
    /\ current_options' = EmptyMap
    /\ question_num' = 0
    /\ in_answer_key' = FALSE
    /\ current_category' = ""
    /\ aliased' = {}
    /\ lineNo' = 1
    /\ parsePc' = "begin"
    /\ UNCHANGED text
    /\ UNCHANGED <<pdfVars, qaVars, corrVars, normVars, catVars>>


MaxLines == 4
Alphabet ==
    { AnswerKeyLine, TestLine,
      KeyEntryLine(1, Glyph("bolditalic", "B")),
      InlineNumberedLine(1, "C"),
      CorrectAnswerLine("A"), CorrectAnswerLine("d"),
      QuestionLine(2, "What is x?"), QuestionLine(0, "Statics"),
      OptionLine("b", "y"),
      TextLine }
Texts == UNION {[1..n -> Alphabet] : n \in 0..MaxLines}

PdfIdle ==
    /\ seed = 0 /\ faultAt = 0 /\ total = 0 /\ resume = TRUE /\ pdfPc = "idle" /\ pq = << >>
    /\ idx = 0 /\ ckpt = "idle" /\ loadedIdx = -1
    /\ sentNow = {} /\ judgedBefore = {}

QaIdle ==
    /\ qaQuestions = << >> /\ auto_correct = FALSE /\ results = << >>
    /\ corrections = << >> /\ is_running = FALSE /\ should_stop = FALSE
    /\ current_index = 0 /\ qaPc = "off" /\ qaI = 0 /\ progress = <<0, 0, FALSE>>
    /\ stop_called = FALSE
    /\ lock = "free" /\ gpPc = "out" /\ gpIndex = 0
    /\ replies = << >>
    /\ raisedAt = {}

CorrIdle ==
    /\ cQuestions = << >> /\ cCorrections = << >> /\ cPc = "off"
    /\ cArgs = <<0, 0>> /\ cInput = << >> /\ cOutput = << >>

CatIdle == catRest = << >> /\ catPc = "off" /\ catLabel = FALSE

NormIdle == nInput = "" /\ nPc = "off" /\ nOnce = NoneVal /\ nTwice = NoneVal

ParseInit ==
    /\ PdfIdle
    /\ QaIdle
    /\ CorrIdle
    /\ NormIdle
    /\ CatIdle
    /\ text \in Texts
    /\ parsePc = "begin"
    /\ lineNo = 1
    /\ questions = << >>
    /\ answer_key = EmptyMap
    /\ current_question = NoText
    /\ current_options = EmptyMap
    /\ question_num = 0
    /\ in_answer_key = FALSE
    /\ current_category = ""
    /\ aliased = {}
    /\ firstCall = NoCall

ParseNext ==
    \/ ParseBegin
    \/ ScanAnswerKeyHeading
    \/ ScanInsideAnswerKey
    \/ ScanCorrectAnswer
    \/ ScanNewQuestion
    \/ ScanOption
    \/ ScanContinuation
    \/ ParseFinish
    \/ ParseAgain

SpecParse == ParseInit /\ [][ParseNext]_vars

\* C8: every Question that parse_questions_and_answers has emitted has a
\* positive number and a non-empty options mapping.
C8_EmittedQuestionsValid ==
    \A i \in DOMAIN questions :
        questions[i].number > 0 /\ DOMAIN questions[i].options # {}

\* A parse that emitted a question from a text that also opens a question
\* numbered 0.
C8_Witness ==
    /\ parsePc = "done"
    /\ Len(questions) >= 1
    /\ \E i \in DOMAIN text : text[i].k = "Question" /\ text[i].n = 0

\* C9: first writer wins: an entry of the answer key set by the trailing
\* block or by an inline numbered line (the two regex passes) is not changed
\* by a post-block "Correct Answer: X" line met during the line scan.
C9_FirstWriterWins ==
    parsePc \in {"scan", "done"} =>
        \A n \in DOMAIN PrePass(text) :
            n \in DOMAIN answer_key /\ answer_key[n] = PrePass(text)[n]

\* C10: when the trailing block holds a key entry "n. X" and the text holds
\* an inline numbered line "n. Answer: Y", the resolved key of n is the X of
\* the block's (last) entry for n.
C10_BlockBeatsInlineNumbered ==
    parsePc = "done" =>
        LET section == AnswerSection(text)
        IN  \A i \in DOMAIN text :
                LET entries == {j \in DOMAIN section :
                                   section[j].k = "KeyEntry" /\ section[j].n = text[i].n}
                    last == CHOOSE j \in entries : \A k \in entries : k <= j
                IN  (text[i].k = "InlineNumbered" /\ entries # {}) =>
                        /\ text[i].n \in DOMAIN answer_key
                        /\ answer_key[text[i].n] = normalize_letter(section[last].l)

\* The "Correct Answer: X" occurrences of a text, in document order.
CorrectAnswerLines(t) == SelectSeq(t, LAMBDA ln : ln.k = "CorrectAnswer")
\* The key that numbers those occurrences 1..k.
NumberedInOrder(t) ==
    [n \in 1..Len(CorrectAnswerLines(t)) |-> Upper(CorrectAnswerLines(t)[n].l)]

\* C11: a text with no trailing-block entry and no inline numbered answer
\* but with k "Correct Answer: X" occurrences resolves to the key
\* {1: l1, ..., k: lk}, whatever the numbers of the questions.
C11_SequentialFallback ==
    (parsePc = "done" /\ PrePass(text) = EmptyMap) =>
        /\ DOMAIN answer_key = DOMAIN NumberedInOrder(text)
        /\ \A n \in DOMAIN answer_key : answer_key[n] = NumberedInOrder(text)[n]

\* Line i is met by the scan inside an Answer Key section.
InKeySection(t, i) ==
    \E a \in 1..(i - 1) :
        /\ t[a].k = "AnswerKey"
        /\ \A j \in (a + 1)..(i - 1) : t[j].k \notin {"AnswerKey", "Test"}
\* The number of the question open when the scan meets line i (0: none).
OpenNumber(t, i) ==
    LET opened == {j \in 1..(i - 1) : IsNumbered(t[j]) /\ ~InKeySection(t, j)}
    IN  IF opened = {} THEN 0
        ELSE t[CHOOSE j \in opened : \A k \in opened : k <= j].n
\* The "Correct Answer: X" lines tied to an open question.
TiedLines(t) ==
    {i \in DOMAIN t :
        t[i].k = "CorrectAnswer" /\ ~InKeySection(t, i) /\ OpenNumber(t, i) > 0}

\* C11 amended: with no trailing-block entry, no inline numbered answer and
\* no "Correct Answer: X" line tied to an open question, the k occurrences
\* resolve to {1: l1, ..., k: lk}; when some line is tied to an open
\* question the key holds the numbers of those questions instead.
C11_FallbackWhenNoLineIsTied ==
    (parsePc = "done" /\ PrePass(text) = EmptyMap) =>
        IF TiedLines(text) = {}
        THEN /\ DOMAIN answer_key = DOMAIN NumberedInOrder(text)
             /\ \A n \in DOMAIN answer_key : answer_key[n] = NumberedInOrder(text)[n]
        ELSE DOMAIN answer_key = {OpenNumber(text, i) : i \in TiedLines(text)}

\* Two occurrences ahead of question 2, which takes the second letter.
C11_Witness ==
    /\ parsePc = "done"
    /\ PrePass(text) = EmptyMap
    /\ TiedLines(text) = {}
    /\ Len(CorrectAnswerLines(text)) = 2
    /\ \E i \in DOMAIN questions :
          /\ questions[i].number = 2
          /\ questions[i].provided_answer = NumberedInOrder(text)[2]

\* C12: after the parse every emitted question's provided_answer is the
\* key's entry for its number, and "?" when the key has none.
C12_ProvidedAnswerFromKey ==
    parsePc = "done" =>
        \A i \in DOMAIN questions :
            questions[i].provided_answer =
                IF questions[i].number \in DOMAIN answer_key
                THEN answer_key[questions[i].number] ELSE "?"

\* A question built with "?" whose answer came from the sequential fallback,
\* next to the text's shape that triggers it.
C12_Witness ==
    /\ parsePc = "done"
    /\ Len(text) >= 2 /\ text[1].k = "CorrectAnswer" /\ text[2].k = "CorrectAnswer"
    /\ \E i \in DOMAIN questions : questions[i].provided_answer \notin {"?", NoneVal}

NoNumberedLine(t) == \A i \in DOMAIN t : ~IsNumbered(t[i])

\* C13 as stated: a text with no numbered item line parses to no question
\* and an empty answer key.
C13_ZeroQuestionDocument ==
    (parsePc = "done" /\ NoNumberedLine(text)) =>
        questions = << >> /\ answer_key = EmptyMap

\* C13 amended: a text with no numbered item line parses to no question;
\* its answer key is empty when it holds no "Correct Answer: X" occurrence
\* and numbers the occurrences 1..k otherwise.
C13_ZeroQuestionFallbackKey ==
    (parsePc = "done" /\ NoNumberedLine(text)) =>
        /\ questions = << >>
        /\ DOMAIN answer_key = DOMAIN NumberedInOrder(text)
        /\ \A n \in DOMAIN answer_key : answer_key[n] = NumberedInOrder(text)[n]

\* A finished parse of a non-empty text without numbered lines that holds
\* options, free text and a lower-case "Correct Answer" line.
C13_Witness ==
    /\ parsePc = "done"
    /\ NoNumberedLine(text)
    /\ \E i, j, k \in DOMAIN text :
          /\ text[i].k = "Option" /\ text[j].k = "Text"
          /\ text[k].k = "CorrectAnswer" /\ text[k].l \in LowerChars

ParseIdle ==
    /\ text = << >> /\ parsePc = "idle" /\ lineNo = 1 /\ questions = << >>
    /\ answer_key = EmptyMap /\ current_question = NoText
    /\ current_options = EmptyMap /\ question_num = 0 /\ in_answer_key = FALSE
    /\ current_category = "" /\ aliased = {} /\ firstCall = NoCall

(***************************************************************************)
(* The oracle round trip of verify_question_with_claude.  A reply is what  *)
(* client.messages.create and json.loads make of one call:                 *)
(*   api_error   the call raises anthropic.APIError                        *)
(*   bad_json    the text (possibly empty) is not JSON                     *)
(*   no_content  message.content is empty: content[0] raises IndexError    *)
(*   not_object  the text is JSON but no object: result.get raises         *)
(*   object      a JSON object; an absent key is Absent                    *)
(***************************************************************************)
PyTrue == "True"
PyFalse == "False"
Absent == "<absent>"
Reply(kind, letter, value, confidence, notes) ==
    [kind |-> kind, correct_letter |-> letter, calculated_value |-> value,
     confidence |-> confidence, notes |-> notes]
Replies ==
    << Reply("object", "A", "42", "high", ""),
       Reply("api_error", Absent, Absent, Absent, Absent),
       Reply("object", "c", Absent, Absent, Absent),
       Reply("bad_json", Absent, Absent, Absent, Absent),
       Reply("object", "E", "7", "high", "check"),
       Reply("object", Absent, "7", "medium", ""),
       Reply("object", "d", "9", "medium", "") >>
\* The replies that make verify_question_with_claude raise.
FaultReplies ==
    << Reply("no_content", Absent, Absent, Absent, Absent),
       Reply("not_object", Absent, Absent, Absent, Absent) >>

\* dict.get(key, default)
Get(v, default) == IF v = Absent THEN default ELSE v

\* The exceptions verify_question_with_claude catches, and those it lets through.
Caught(reply) == reply.kind \in {"api_error", "bad_json"}
Raises(reply) == reply.kind \in {"no_content", "not_object"}

verify_question_with_claude(question, reply) ==
    IF reply.kind = "bad_json"
    THEN [question EXCEPT !.confidence = "low", !.notes = "Errore parsing risposta",
                          !.is_correct = NoneVal]
    ELSE IF reply.kind = "api_error"
    THEN [question EXCEPT !.confidence = "low", !.notes = "Errore API",
                          !.is_correct = NoneVal]
    ELSE IF Raises(reply) THEN question
    ELSE LET calculated == Upper(Get(reply.correct_letter, "?"))
             correct == (calculated = question.provided_answer)
             q1 == [question EXCEPT
                       !.calculated_answer = calculated,
                       !.calculated_value = Get(reply.calculated_value, ""),
                       !.confidence = Get(reply.confidence, "medium"),
                       !.notes = Get(reply.notes, ""),
                       !.is_correct = IF correct THEN PyTrue ELSE PyFalse]
         IN  IF correct THEN q1
             ELSE IF calculated \in DOMAIN question.options
             THEN [q1 EXCEPT !.correction_type = "answer_key",
                             !.suggested_correction = calculated]
             ELSE [q1 EXCEPT !.correction_type = "option_missing",
                             !.notes = q1.notes \o
                                 " | Valore calcolato non presente tra le opzioni"]

(***************************************************************************)
(* determine_random_letter: the least used letter among the provided       *)
(* answers of the 5 questions before and the 5 after current_idx.          *)
(* random.choice is a fixed function of its argument, selected by pick.    *)
(***************************************************************************)
WindowBefore == 5
WindowAfter == 6
Max2(a, b) == IF a >= b THEN a ELSE b
Min2(a, b) == IF a <= b THEN a ELSE b
FreqLetters == <<"A", "B", "C", "D">>
\* The most used letters instead of the least used.
Candidates_most_used(qs, current_idx) ==
    LET start == Max2(0, current_idx - WindowBefore)
        end == Min2(Len(qs), current_idx + WindowAfter)
        nearby == {i \in start..(end - 1) :
                      i # current_idx /\ qs[i + 1].provided_answer # ""}
        freq == [l \in {"A", "B", "C", "D"} |->
                    Cardinality({i \in nearby : qs[i + 1].provided_answer = l})]
        max_freq == CHOOSE m \in {freq[l] : l \in {"A", "B", "C", "D"}} :
                        \A l \in {"A", "B", "C", "D"} : freq[l] <= m
    IN  SelectSeq(FreqLetters, LAMBDA l : freq[l] = max_freq)

Candidates(qs, current_idx) ==
    LET start == Max2(0, current_idx - WindowBefore)
        end == Min2(Len(qs), current_idx + WindowAfter)
        nearby == {i \in start..(end - 1) :
                      i # current_idx /\ qs[i + 1].provided_answer # ""}
        freq == [l \in {"A", "B", "C", "D"} |->
                    Cardinality({i \in nearby : qs[i + 1].provided_answer = l})]
        min_freq == Min({freq[l] : l \in {"A", "B", "C", "D"}})
    IN  SelectSeq(FreqLetters, LAMBDA l : freq[l] = min_freq)
determine_random_letter(qs, current_idx, pick) ==
    LET candidates == Candidates(qs, current_idx)
    IN  candidates[(pick % Len(candidates)) + 1]

(***************************************************************************)
(* The checkpoint file: json.dump of asdict(q) for the prefix, and the     *)
(* Question built from each dict json.load returns.  A JSON value is       *)
(* <<type, value>>.                                                        *)
(***************************************************************************)
JsonStr(v) == <<"str", v>>
JsonOpt(v) == IF v = NoneVal THEN <<"null">> ELSE <<"str", v>>
JsonTri(v) ==
    IF v = NoneVal THEN <<"null">> ELSE IF v = PyTrue THEN <<"true">> ELSE <<"false">>
PyOpt(j) == IF j = <<"null">> THEN NoneVal ELSE j[2]
PyTri(j) ==
    IF j = <<"null">> THEN NoneVal ELSE IF j = <<"true">> THEN PyTrue ELSE PyFalse

asdict_json(q) ==
    [number |-> <<"num", q.number>>, category |-> JsonStr(q.category),
     text |-> JsonStr(q.text), options |-> <<"obj", q.options>>,
     provided_answer |-> JsonStr(q.provided_answer),
     calculated_answer |-> JsonOpt(q.calculated_answer),
     calculated_value |-> JsonOpt(q.calculated_value),
     is_correct |-> JsonTri(q.is_correct), confidence |-> JsonStr(q.confidence),
     correction_type |-> JsonOpt(q.correction_type),
     suggested_correction |-> JsonOpt(q.suggested_correction),
     notes |-> JsonStr(q.notes)]
question_from_json(d) ==
    [number |-> d.number[2], category |-> d.category[2], text |-> d.text[2],
     options |-> d.options[2], provided_answer |-> d.provided_answer[2],
     calculated_answer |-> PyOpt(d.calculated_answer),
     calculated_value |-> PyOpt(d.calculated_value),
     is_correct |-> PyTri(d.is_correct), confidence |-> d.confidence[2],
     correction_type |-> PyOpt(d.correction_type),
     suggested_correction |-> PyOpt(d.suggested_correction),
     notes |-> d.notes[2]]

\* The file is absent, truncated (opened for writing, the dump not finished)
\* or written.
NoFile == [state |-> "absent", last_processed_index |-> -1, questions |-> << >>]
PartialFile == [state |-> "partial", last_processed_index |-> -1, questions |-> << >>]

\* save_checkpoint slicing questions[:last_idx].
save_checkpoint_short(qs, last_idx) ==
    [state |-> "written", last_processed_index |-> last_idx,
     questions |-> [i \in 1..Min2(Len(qs), Max2(0, last_idx)) |-> asdict_json(qs[i])]]

\* Dumping the whole list, whatever last_idx is.
save_checkpoint_whole(qs, last_idx) ==
    [state |-> "written", last_processed_index |-> last_idx,
     questions |-> [i \in 1..Len(qs) |-> asdict_json(qs[i])]]

save_checkpoint(qs, last_idx) ==
    [state |-> "written", last_processed_index |-> last_idx,
     questions |-> [i \in 1..Min2(Len(qs), Max2(0, last_idx + 1)) |->
                       asdict_json(qs[i])]]

\* Defined for an absent or a written file; json.load raises on a truncated one.
load_checkpoint(file) ==
    IF file.state = "absent" THEN <<-1, << >>>>
    ELSE <<file.last_processed_index,
           [i \in DOMAIN file.questions |-> question_from_json(file.questions[i])]>>

(***************************************************************************)
(* process_pdf.  The document is what parse_questions_and_answers returns  *)
(* for the input file: total questions numbered from 1.  The oracle is     *)
(* deterministic: its reply is a function of the question, selected by     *)
(* seed, and so is random.choice.                                          *)
(***************************************************************************)
MaxQuestions == 11
CheckpointEvery == 10
ProvidedPattern == <<"A", "B", "?", "C", "D">>
ProvidedOf(n) == ProvidedPattern[(n % Len(ProvidedPattern)) + 1]
OptionsOf(n) ==
    IF n % 3 = 0 THEN [l \in {"A", "B", "C"} |-> "option"]
    ELSE [l \in {"A", "B", "C", "D"} |-> "option"]
Document(t) ==
    [i \in 1..t |-> Question(i, "", <<"What is x?">>, OptionsOf(i), ProvidedOf(i))]
OracleReply(sd, fa, question) ==
    IF question.number = fa THEN FaultReplies[(fa % Len(FaultReplies)) + 1]
    ELSE Replies[((question.number + sd) % Len(Replies)) + 1]

\* The round trip without the tie-break that follows it.
judge_unreconciled(qs, i, sd, fa) ==
    [qs EXCEPT ![i + 1] =
        verify_question_with_claude(qs[i + 1], OracleReply(sd, fa, qs[i + 1]))]

\* Lines 547-555: the round trip, then the tie-break for a missing option.
judge(qs, i, sd, fa) ==
    LET v == verify_question_with_claude(qs[i + 1], OracleReply(sd, fa, qs[i + 1]))
        qs1 == [qs EXCEPT ![i + 1] = v]
    IN  IF v.correction_type = "option_missing"
        THEN [qs1 EXCEPT ![i + 1].suggested_correction =
                             determine_random_letter(qs1, i, sd)]
        ELSE qs1

\* Resuming one question too far, and at the checkpointed question itself.
start_idx_skipping(last_idx) == IF last_idx >= 0 THEN last_idx + 2 ELSE 0
start_idx_repeating(last_idx) == IF last_idx >= 0 THEN last_idx ELSE 0
\* Keeping the fresh parse instead of the checkpointed records.
restore_nothing(qs, saved_questions) == qs

\* Restoring every checkpointed record but the last one.
restore_all_but_last(qs, saved_questions) ==
    [i \in 1..Len(qs) |-> IF i < Len(saved_questions) THEN saved_questions[i] ELSE qs[i]]

\* Lines 528-537.
start_idx(last_idx) == IF last_idx >= 0 THEN last_idx + 1 ELSE 0
restore(qs, saved_questions) ==
    [i \in 1..Len(qs) |-> IF i <= Len(saved_questions) THEN saved_questions[i] ELSE qs[i]]

Running ==
    pdfPc \in {"loop", "inflight", "ckpt_open", "ckpt_write", "final_write", "report"}
\* The indices whose judgment completed in the current run.
JudgedNow == IF pdfPc \in {"inflight", "judge_failed"} THEN sentNow \ {idx} ELSE sentNow

PdfInit ==
    /\ ParseIdle
    /\ QaIdle
    /\ CorrIdle
    /\ NormIdle
    /\ CatIdle
    /\ seed \in 0..(Len(Replies) - 1)
    /\ total \in 0..MaxQuestions
    /\ faultAt \in 0..total
    /\ resume = TRUE
    /\ pdfPc = "init"
    /\ pq = << >>
    /\ idx = 0
    /\ ckpt = NoFile
    /\ loadedIdx = -1
    /\ sentNow = {}
    /\ judgedBefore = {}

\* A run of process_pdf begins: parse, load the checkpoint, restore the prefix.
PdfStart ==
    /\ pdfPc \in {"init", "crashed", "judge_failed", "load_failed"}
    /\ \E r \in BOOLEAN :
          /\ resume' = r
          /\ IF r /\ ckpt.state = "partial"
             THEN /\ pdfPc' = "load_failed"
                  /\ pq' = Document(total)
                  /\ idx' = 0
                  /\ loadedIdx' = -1
             ELSE LET loaded == IF r THEN load_checkpoint(ckpt) ELSE <<-1, << >>>>
                      last_idx == loaded[1]
                  IN  /\ pdfPc' = "loop"
                      /\ loadedIdx' = last_idx
                      /\ idx' = start_idx(last_idx)
                      /\ pq' = IF last_idx >= 0 THEN restore(Document(total), loaded[2])
                               ELSE Document(total)
    /\ sentNow' = {}
    /\ UNCHANGED <<seed, faultAt, total, ckpt, judgedBefore>>
    /\ UNCHANGED <<parseVars, qaVars, corrVars, normVars, catVars>>

\* Line 547: the question goes to the oracle.
PdfSend ==
    /\ pdfPc = "loop"
    /\ idx < total
    /\ pdfPc' = "inflight"
    /\ sentNow' = sentNow \cup {idx}
    /\ UNCHANGED <<seed, faultAt, total, resume, pq, idx, ckpt, loadedIdx, judgedBefore>>
    /\ UNCHANGED <<parseVars, qaVars, corrVars, normVars, catVars>>

\* Lines 547-563: the reply arrives; an exception the function does not catch
\* ends the run.
PdfJudge ==
    /\ pdfPc = "inflight"
    /\ IF Raises(OracleReply(seed, faultAt, pq[idx + 1]))
       THEN /\ pdfPc' = "judge_failed"
            /\ judgedBefore' = judgedBefore \cup (sentNow \ {idx})
            /\ UNCHANGED <<pq, idx>>
       ELSE /\ pq' = judge(pq, idx, seed, faultAt)
            /\ IF (idx + 1) % CheckpointEvery = 0
               THEN pdfPc' = "ckpt_open" /\ idx' = idx
               ELSE pdfPc' = "loop" /\ idx' = idx + 1
            /\ UNCHANGED judgedBefore
    /\ UNCHANGED <<seed, faultAt, total, resume, ckpt, loadedIdx, sentNow>>
    /\ UNCHANGED <<parseVars, qaVars, corrVars, normVars, catVars>>

\* Line 367: open(checkpoint_path, 'w') truncates the file.
PdfCheckpointOpen ==
    /\ pdfPc = "ckpt_open"
    /\ ckpt' = PartialFile
    /\ pdfPc' = "ckpt_write"
    /\ UNCHANGED <<seed, faultAt, total, resume, pq, idx, loadedIdx, sentNow, judgedBefore>>
    /\ UNCHANGED <<parseVars, qaVars, corrVars, normVars, catVars>>

\* Line 368 for the call of line 560.
PdfCheckpointWrite ==
    /\ pdfPc = "ckpt_write"
    /\ ckpt' = save_checkpoint(pq, idx)
    /\ idx' = idx + 1
    /\ pdfPc' = "loop"
    /\ UNCHANGED <<seed, faultAt, total, resume, pq, loadedIdx, sentNow, judgedBefore>>
    /\ UNCHANGED <<parseVars, qaVars, corrVars, normVars, catVars>>

\* Line 566: the loop is over, the final checkpoint is opened ...
PdfFinalOpen ==
    /\ pdfPc = "loop"
    /\ idx >= total
    /\ ckpt' = PartialFile
    /\ pdfPc' = "final_write"
    /\ UNCHANGED <<seed, faultAt, total, resume, pq, idx, loadedIdx, sentNow, judgedBefore>>
    /\ UNCHANGED <<parseVars, qaVars, corrVars, normVars, catVars>>

\* ... and written.
PdfFinalWrite ==
    /\ pdfPc = "final_write"
    /\ ckpt' = save_checkpoint(pq, Len(pq) - 1)
    /\ pdfPc' = "report"
    /\ UNCHANGED <<seed, faultAt, total, resume, pq, idx, loadedIdx, sentNow, judgedBefore>>
    /\ UNCHANGED <<parseVars, qaVars, corrVars, normVars, catVars>>

\* Lines 569-590: the result, the report, the checkpoint removed.
PdfFinish ==
    /\ pdfPc = "report"
    /\ ckpt' = NoFile
    /\ pdfPc' = "done"
    /\ UNCHANGED <<seed, faultAt, total, resume, pq, idx, loadedIdx, sentNow, judgedBefore>>
    /\ UNCHANGED <<parseVars, qaVars, corrVars, normVars, catVars>>

\* The process is killed: its memory is lost, the file stays as it is.
PdfCrash ==
    /\ Running
    /\ pdfPc' = "crashed"
    /\ judgedBefore' = judgedBefore \cup JudgedNow
    /\ pq' = << >>
    /\ idx' = 0
    /\ sentNow' = {}
    /\ loadedIdx' = -1
    /\ UNCHANGED <<seed, faultAt, total, resume, ckpt>>
    /\ UNCHANGED <<parseVars, qaVars, corrVars, normVars, catVars>>

PdfNext ==
    \/ PdfStart
    \/ PdfSend
    \/ PdfJudge
    \/ PdfCheckpointOpen
    \/ PdfCheckpointWrite
    \/ PdfFinalOpen
    \/ PdfFinalWrite
    \/ PdfFinish
    \/ PdfCrash

SpecPdf == PdfInit /\ [][PdfNext]_vars

\* The oracle did not return the expected JSON object with a letter.
OracleFailed(reply) == reply.kind # "object" \/ reply.correct_letter = Absent
\* The indices whose round trip came to an end in the current run.
EndedNow == IF pdfPc = "inflight" THEN sentNow \ {idx} ELSE sentNow

\* C2: a question whose oracle round trip failed in transport, or returned
\* an empty or malformed response, ends with confidence "low", non-empty
\* notes and is_correct None, and with no correction_type and no
\* suggested_correction.
C2_OracleFailureLeavesUnknown ==
    (Running \/ pdfPc \in {"judge_failed", "done"}) =>
        \A j \in EndedNow :
            OracleFailed(OracleReply(seed, faultAt, pq[j + 1])) =>
                /\ pq[j + 1].confidence = "low"
                /\ pq[j + 1].notes # ""
                /\ pq[j + 1].is_correct = NoneVal
                /\ pq[j + 1].correction_type = NoneVal
                /\ pq[j + 1].suggested_correction = NoneVal

\* One run of the question loop without interruption, from index i on.
RECURSIVE Uninterrupted(_, _, _, _)
Uninterrupted(qs, i, sd, fa) ==
    IF i >= Len(qs) THEN qs ELSE Uninterrupted(judge(qs, i, sd, fa), i + 1, sd, fa)

\* C4: a run of process_pdf that completes, whatever interruptions and
\* resumed reruns came before it, ends with the question records of one
\* uninterrupted run on the same input.
C4_ResumeEquivalence ==
    pdfPc = "done" => pq = Uninterrupted(Document(total), 0, seed, faultAt)

\* A run that resumed from a persisted checkpoint, judged the remaining
\* questions (one of them through the tie-break) and completed.
C4_Witness ==
    /\ pdfPc = "done"
    /\ resume
    /\ loadedIdx >= 0
    /\ sentNow # {}
    /\ judgedBefore # {}
    /\ \E j \in sentNow : pq[j + 1].correction_type = "option_missing"

\* C5 as stated: in a rerun with resume enabled no question judged before
\* the interruption is sent to the oracle again.
C5_NoJudgedQuestionSentAgain ==
    resume => sentNow \cap judgedBefore = {}

\* C5 amended: in a rerun with resume enabled, a question judged before the
\* interruption and covered by the checkpoint the rerun loaded keeps its
\* judged record and is not sent again; one judged before the interruption
\* and sent again lies after the loaded checkpoint.
C5_CheckpointedJudgmentsKept ==
    (resume /\ (Running \/ pdfPc \in {"judge_failed", "done"})) =>
        /\ \A j \in judgedBefore :
              j <= loadedIdx =>
                  /\ j \notin sentNow
                  /\ pq[j + 1] = judge(Document(total), j, seed, faultAt)[j + 1]
        /\ \A j \in judgedBefore \cap sentNow : j > loadedIdx

\* A resumed rerun that kept ten checkpointed judgments and is sending a
\* question again whose earlier judgment was not checkpointed.
C5_Witness ==
    /\ resume
    /\ pdfPc = "inflight"
    /\ loadedIdx = CheckpointEvery - 1
    /\ idx \in judgedBefore
    /\ idx > loadedIdx

\* C6: when a checkpoint with last_processed_index = L >= 0 is loaded, the
\* records at indices 0..L are the checkpointed ones, the first question
\* sent to the oracle is the one at index L + 1, and no question at an
\* index <= L is sent in that run.
C6_ResumeSemantics ==
    /\ [][(~Running /\ pdfPc' = "loop" /\ loadedIdx' >= 0) =>
              /\ idx' = loadedIdx' + 1
              /\ \A j \in 0..loadedIdx' :
                    j < Len(pq') => pq'[j + 1] = load_checkpoint(ckpt)[2][j + 1]]_vars
    /\ []((loadedIdx >= 0 /\ (Running \/ pdfPc \in {"judge_failed", "done"})) =>
              /\ \A j \in sentNow : j > loadedIdx
              /\ sentNow # {} => loadedIdx + 1 \in sentNow)

\* A run that loaded a checkpoint and has sent a question to the oracle.
C6_Witness ==
    /\ loadedIdx >= 0
    /\ pdfPc = "inflight"
    /\ sentNow # {}
    /\ judgedBefore # {}

\* C7: loading what save_checkpoint(qs, path, i) has written returns
\* (i, qs[0..i]) with every field of every record equal; loading where no
\* checkpoint exists returns (-1, []).
C7_CheckpointRoundTrip ==
    /\ [][(pdfPc \in {"ckpt_write", "final_write"} /\ ckpt' # ckpt) =>
              LET i == IF pdfPc = "ckpt_write" THEN idx ELSE Len(pq) - 1
              IN  load_checkpoint(ckpt') = <<i, SubSeq(pq, 1, i + 1)>>]_vars
    /\ [](ckpt = NoFile => load_checkpoint(ckpt) = <<-1, << >>>>)

\* A written checkpoint of ten records, among them an unknown, a wrong and
\* a right judgment.
C7_Witness ==
    /\ ckpt # NoFile
    /\ ckpt # PartialFile
    /\ ckpt.last_processed_index = CheckpointEvery - 1
    /\ \E i, j, k \in DOMAIN ckpt.questions :
          /\ load_checkpoint(ckpt)[2][i].is_correct = NoneVal
          /\ load_checkpoint(ckpt)[2][j].is_correct = "False"
          /\ load_checkpoint(ckpt)[2][k].is_correct = "True"

(***************************************************************************)
(* The JSON pipeline: QuestionSolver, QuestionValidator and QAProcessor.   *)
(* A text is the sequence of its characters.  A solver outcome is what the *)
(* two API calls of solve make of one question: the call raises, or the    *)
(* matching call returns a text.                                           *)
(***************************************************************************)
Answer(letter, txt) == [letter |-> letter, text |-> txt]
JsonQuestion(id, answers, correct_answer) ==
    [id |-> id, question |-> "text of " \o id, answers |-> answers,
     correct_answer |-> correct_answer, category |-> NoneVal]

RECURSIVE LStrip(_)
LStrip(cs) == IF cs # << >> /\ Head(cs) = " " THEN LStrip(Tail(cs)) ELSE cs
RECURSIVE RStrip(_)
RStrip(cs) ==
    IF cs # << >> /\ cs[Len(cs)] = " " THEN RStrip(SubSeq(cs, 1, Len(cs) - 1)) ELSE cs
\* str.strip() and str.upper() on a text.
Strip(cs) == RStrip(LStrip(cs))
UpperAll(cs) == [i \in 1..Len(cs) |-> Upper(cs[i])]

\* solver.py lines 106-118.
find_matching_answer(reply, answers) ==
    LET letter == UpperAll(Strip(reply))
        valid_letters == {<<Upper(answers[i].letter)>> : i \in DOMAIN answers}
        hits == {i \in DOMAIN letter : <<letter[i]>> \in valid_letters}
    IN  IF letter \in valid_letters THEN letter[1]
        ELSE IF hits # {} THEN letter[Min(hits)]
        ELSE NoneVal

SolverOutcome(kind, reply) == [kind |-> kind, reply |-> reply]
SolverOutcomes ==
    { SolverOutcome("text", <<"B">>),
      SolverOutcome("text", <<" ", "c">>),
      SolverOutcome("text", <<"N", "E", "S", "S", "U", "N", "A">>),
      SolverOutcome("text", <<"Z">>),
      SolverOutcome("api_error", << >>) }

\* solver.py lines 45-71; the reasoning and confidence play no part later.
solve(question, outcome) ==
    [calculated_answer |-> "calculated",
     matching_letter |-> find_matching_answer(outcome.reply, question.answers)]

\* validate comparing the letters as they are written.
validate_case_sensitive(question, solver_result) ==
    LET calculated_letter == solver_result.matching_letter
    IN  IF calculated_letter # NoneVal /\ calculated_letter # ""
        THEN IF calculated_letter = question.correct_answer
             THEN [question_id |-> question.id, is_correct |-> TRUE,
                   solver_result |-> solver_result,
                   original_correct_answer |-> Upper(question.correct_answer),
                   correction_type |-> "none", suggested_correction |-> NoneVal]
             ELSE [question_id |-> question.id, is_correct |-> FALSE,
                   solver_result |-> solver_result,
                   original_correct_answer |-> Upper(question.correct_answer),
                   correction_type |-> "wrong_answer_letter",
                   suggested_correction |-> Upper(calculated_letter)]
        ELSE [question_id |-> question.id, is_correct |-> FALSE,
              solver_result |-> solver_result,
              original_correct_answer |-> Upper(question.correct_answer),
              correction_type |-> "no_correct_option", suggested_correction |-> NoneVal]

\* validator.py lines 26-61 (the solver's result is an argument here).
validate(question, solver_result) ==
    LET original_correct == Upper(question.correct_answer)
        calculated_letter == solver_result.matching_letter
    IN  IF calculated_letter # NoneVal /\ calculated_letter # ""
        THEN IF Upper(calculated_letter) = original_correct
             THEN [question_id |-> question.id, is_correct |-> TRUE,
                   solver_result |-> solver_result,
                   original_correct_answer |-> original_correct,
                   correction_type |-> "none", suggested_correction |-> NoneVal]
             ELSE [question_id |-> question.id, is_correct |-> FALSE,
                   solver_result |-> solver_result,
                   original_correct_answer |-> original_correct,
                   correction_type |-> "wrong_answer_letter",
                   suggested_correction |-> Upper(calculated_letter)]
        ELSE [question_id |-> question.id, is_correct |-> FALSE,
              solver_result |-> solver_result,
              original_correct_answer |-> original_correct,
              correction_type |-> "no_correct_option", suggested_correction |-> NoneVal]

\* generate_correction correcting a text even when no answer has the marked
\* letter.
generate_correction_unmarked(validation_result, question) ==
    IF validation_result.is_correct THEN << >>
    ELSE IF validation_result.correction_type = "wrong_answer_letter"
    THEN <<[question_id |-> question.id,
            correction_type |-> "wrong_answer_letter",
            field_to_correct |-> <<"correct_answer">>,
            old_value |-> validation_result.original_correct_answer,
            new_value |-> validation_result.suggested_correction]>>
    ELSE <<[question_id |-> question.id,
            correction_type |-> "wrong_answer_text",
            field_to_correct |->
                <<"answers", "[", validation_result.original_correct_answer,
                  "]", ".text">>,
            old_value |-> "",
            new_value |-> validation_result.solver_result.calculated_answer]>>

\* validator.py lines 63-92; << >> stands for "no correction" (None).  The
\* field name is the sequence of the pieces the f-string joins.
generate_correction(validation_result, question) ==
    LET marked == {i \in DOMAIN question.answers :
                      Upper(question.answers[i].letter) =
                          validation_result.original_correct_answer}
    IN  IF validation_result.is_correct THEN << >>
        ELSE IF validation_result.correction_type = "wrong_answer_letter"
        THEN <<[question_id |-> question.id,
                correction_type |-> "wrong_answer_letter",
                field_to_correct |-> <<"correct_answer">>,
                old_value |-> validation_result.original_correct_answer,
                new_value |-> validation_result.suggested_correction]>>
        ELSE IF validation_result.correction_type = "no_correct_option" /\ marked # {}
        THEN <<[question_id |-> question.id,
                correction_type |-> "wrong_answer_text",
                field_to_correct |->
                    <<"answers", "[", validation_result.original_correct_answer,
                      "]", ".text">>,
                old_value |-> question.answers[Min(marked)].text,
                new_value |-> validation_result.solver_result.calculated_answer]>>
        ELSE << >>

\* processor.py lines 61-67: <<result, correction or nothing>>.
process_single(question, auto, outcome) ==
    LET result == validate(question, solve(question, outcome))
    IN  <<result,
          IF ~result.is_correct /\ auto THEN generate_correction(result, question)
          ELSE << >>>>

(***************************************************************************)
(* QuestionCorrector.  A call is modelled by the two objects it leaves:    *)
(* its argument as it is afterwards, and the question it returns.          *)
(***************************************************************************)
Correction(question_id, correction_type, field_to_correct, old_value, new_value) ==
    [question_id |-> question_id, correction_type |-> correction_type,
     field_to_correct |-> field_to_correct, old_value |-> old_value,
     new_value |-> new_value]

RECURSIVE Join(_)
Join(pieces) == IF pieces = << >> THEN "" ELSE Head(pieces) \o Join(Tail(pieces))

\* corrector.py line 25: field_to_correct.split("[")[1].split("]")[0];
\* without a "[" the index [1] raises IndexError.
FieldHasLetter(field) == \E i \in DOMAIN field : field[i] = "["
LetterOfField(field) ==
    LET a == Min({i \in DOMAIN field : field[i] = "["})
        stop == Min({i \in (a + 1)..Len(field) : field[i] \in {"[", "]"}}
                        \cup {Len(field) + 1})
    IN  Join(SubSeq(field, a + 1, stop - 1))

ApplyRaises(correction) ==
    correction.correction_type = "wrong_answer_text"
        /\ ~FieldHasLetter(correction.field_to_correct)

\* The question_dict of lines 18-35 after the branches.
corrected_dict(question, correction) ==
    IF correction.correction_type = "wrong_answer_letter"
    THEN [question EXCEPT !.correct_answer = correction.new_value]
    ELSE IF correction.correction_type = "wrong_answer_text"
    THEN LET letter == LetterOfField(correction.field_to_correct)
             hits == {i \in DOMAIN question.answers :
                         Upper(question.answers[i].letter) = Upper(letter)}
         IN  IF hits = {} THEN question
             ELSE [question EXCEPT !.answers[Min(hits)].text = correction.new_value]
    ELSE IF correction.correction_type = "wrong_question"
    THEN [question EXCEPT !.question = correction.new_value]
    ELSE question

\* apply_correction writing into its argument instead of a copy.
apply_correction_in_place(question, correction) ==
    [input |-> corrected_dict(question, correction),
     returned |-> corrected_dict(question, correction)]

\* corrector.py lines 12-37: model_dump copies the question, the branches
\* write into the copy, a new Question is built from it.
apply_correction(question, correction) ==
    [input |-> question, returned |-> corrected_dict(question, correction)]

\* Lines 52-56 and 62-65: the corrections of one question id, in list order,
\* applied one after the other.
RECURSIVE apply_all(_, _)
apply_all(question, cs) ==
    IF cs = << >> THEN question
    ELSE apply_all(apply_correction(question, Head(cs)).returned, Tail(cs))

\* The corrections of a question applied last to first.
save_corrected_questions_reversed(qs, cs) ==
    [i \in DOMAIN qs |->
        LET mine == SelectSeq(cs, LAMBDA c : c.question_id = qs[i].id)
        IN  apply_all(qs[i], [k \in DOMAIN mine |-> mine[Len(mine) + 1 - k]])]

\* Lines 39-74: the returned list.
save_corrected_questions(qs, cs) ==
    [i \in DOMAIN qs |->
        apply_all(qs[i], SelectSeq(cs, LAMBDA c : c.question_id = qs[i].id))]

\* save_corrected_questions raises when a correction it applies does.
SaveRaises(qs, cs) ==
    \E i \in DOMAIN qs, j \in DOMAIN cs :
        cs[j].question_id = qs[i].id /\ ApplyRaises(cs[j])

MaxBatch == 2
QuestionPool ==
    { JsonQuestion("q1", <<Answer("A", "2"), Answer("B", "4"), Answer("C", "6"),
                           Answer("D", "8")>>, "B"),
      JsonQuestion("q2", <<Answer("b", "x"), Answer("c", "y")>>, "c"),
      JsonQuestion("q3", <<Answer("A", "u"), Answer("B", "v")>>, "D") }
Batches == UNION {[1..n -> QuestionPool] : n \in 0..MaxBatch}

\* QAProcessor.__init__ and load_questions.
QaInit ==
    /\ ParseIdle
    /\ PdfIdle
    /\ CorrIdle
    /\ NormIdle
    /\ CatIdle
    /\ qaQuestions \in Batches
    /\ auto_correct \in BOOLEAN
    /\ results = << >>
    /\ corrections = << >>
    /\ is_running = FALSE
    /\ should_stop = FALSE
    /\ current_index = 0
    /\ qaPc = "idle"
    /\ qaI = 0
    /\ progress = <<0, 0, FALSE>>
    /\ stop_called = FALSE
    /\ lock = "free" /\ gpPc = "out" /\ gpIndex = 0
    /\ replies = << >>
    /\ raisedAt = {}

\* processor.py lines 79-85: process_all begins.
ProcessAllBegin ==
    /\ qaPc = "idle"
    /\ gpPc = "out"
    /\ results' = << >>
    /\ corrections' = << >>
    /\ qaI' = 0
    /\ qaPc' = "all_loop"
    /\ UNCHANGED <<qaQuestions, auto_correct, is_running, should_stop, current_index,
                   progress>>
    /\ UNCHANGED stop_called
    /\ UNCHANGED <<lock, gpPc, gpIndex>>
    /\ replies' = << >>
    /\ raisedAt' = {}
    /\ UNCHANGED <<parseVars, pdfVars, corrVars, normVars, catVars>>

\* Lines 87-95: one question; an exception of process_single leaves
\* process_all.
ProcessAllStep ==
    /\ qaPc = "all_loop"
    /\ qaI < Len(qaQuestions)
    /\ \E outcome \in SolverOutcomes :
          IF outcome.kind = "api_error"
          THEN /\ qaPc' = "all_raised"
               /\ UNCHANGED <<results, corrections, qaI, replies>>
               /\ raisedAt' = raisedAt \cup {qaI + 1}
          ELSE LET rc == process_single(qaQuestions[qaI + 1], auto_correct, outcome)
               IN  /\ results' = Append(results, rc[1])
                   /\ replies' = Append(replies, outcome.reply)
                   /\ corrections' = corrections \o rc[2]
                   /\ qaI' = qaI + 1
                   /\ qaPc' = "all_loop"
                   /\ UNCHANGED raisedAt
    /\ UNCHANGED <<qaQuestions, auto_correct, is_running, should_stop, current_index,
                   progress>>
    /\ UNCHANGED stop_called
    /\ UNCHANGED <<lock, gpPc, gpIndex>>
    /\ UNCHANGED <<parseVars, pdfVars, corrVars, normVars, catVars>>

\* Lines 97-112: the summary, the report, the corrected file, the return.
ProcessAllEnd ==
    /\ qaPc = "all_loop"
    /\ qaI >= Len(qaQuestions)
    /\ qaPc' = "all_done"
    /\ cOutput' = IF corrections # << >>
                  THEN save_corrected_questions(qaQuestions, corrections)
                  ELSE cOutput
    /\ UNCHANGED <<qaQuestions, auto_correct, results, corrections, is_running,
                   should_stop, current_index, qaI, progress>>
    /\ UNCHANGED stop_called
    /\ UNCHANGED <<lock, gpPc, gpIndex>>
    /\ UNCHANGED <<replies, raisedAt>>
    /\ UNCHANGED <<parseVars, pdfVars, cQuestions, cCorrections, cPc, cArgs, cInput,
                   normVars, catVars>>

\* Lines 167-169: the worker thread is started.
StartBackground ==
    /\ qaPc = "idle"
    /\ gpPc = "out"
    /\ qaPc' = "w_begin"
    /\ UNCHANGED <<qaQuestions, auto_correct, results, corrections, is_running,
                   should_stop, current_index, qaI, progress>>
    /\ stop_called' = FALSE
    /\ UNCHANGED <<lock, gpPc, gpIndex>>
    /\ UNCHANGED <<replies, raisedAt>>
    /\ UNCHANGED <<parseVars, pdfVars, corrVars, normVars, catVars>>

\* Lines 125-128.
WorkerBegin ==
    /\ qaPc = "w_begin"
    /\ is_running' = TRUE
    /\ should_stop' = FALSE
    /\ results' = << >>
    /\ corrections' = << >>
    /\ qaI' = 0
    /\ qaPc' = "w_loop"
    /\ UNCHANGED <<qaQuestions, auto_correct, current_index, progress>>
    /\ UNCHANGED stop_called
    /\ UNCHANGED <<lock, gpPc, gpIndex>>
    /\ replies' = << >>
    /\ raisedAt' = {}
    /\ UNCHANGED <<parseVars, pdfVars, corrVars, normVars, catVars>>

\* Lines 130-132: the next question, the stop flag.
WorkerNext ==
    /\ qaPc = "w_loop"
    /\ qaPc' = IF qaI >= Len(qaQuestions) \/ should_stop THEN "w_end" ELSE "w_lock"
    /\ UNCHANGED <<qaQuestions, auto_correct, results, corrections, is_running,
                   should_stop, current_index, qaI, progress>>
    /\ UNCHANGED stop_called
    /\ UNCHANGED <<lock, gpPc, gpIndex>>
    /\ UNCHANGED <<replies, raisedAt>>
    /\ UNCHANGED <<parseVars, pdfVars, corrVars, normVars, catVars>>

\* Line 134: with self._lock, entered.
WorkerLock ==
    /\ qaPc = "w_lock"
    /\ lock = "free"
    /\ lock' = "worker"
    /\ qaPc' = "w_index"
    /\ UNCHANGED <<qaQuestions, auto_correct, results, corrections, is_running,
                   should_stop, current_index, qaI, progress, gpPc, gpIndex>>
    /\ UNCHANGED stop_called
    /\ UNCHANGED <<replies, raisedAt>>
    /\ UNCHANGED <<parseVars, pdfVars, corrVars, normVars, catVars>>

\* Line 135 and the end of the with block.
WorkerSetIndex ==
    /\ qaPc = "w_index"
    /\ current_index' = qaI
    /\ lock' = "free"
    /\ qaPc' = "w_process"
    /\ UNCHANGED <<qaQuestions, auto_correct, results, corrections, is_running,
                   should_stop, qaI, progress, gpPc, gpIndex>>
    /\ UNCHANGED stop_called
    /\ UNCHANGED <<replies, raisedAt>>
    /\ UNCHANGED <<parseVars, pdfVars, corrVars, normVars, catVars>>

\* Lines 137-149: one question; an exception goes to on_error only.
WorkerProcess ==
    /\ qaPc = "w_process"
    /\ \E outcome \in SolverOutcomes :
          IF outcome.kind = "api_error"
          THEN /\ UNCHANGED <<results, corrections, replies>>
               /\ raisedAt' = raisedAt \cup {qaI + 1}
          ELSE LET rc == process_single(qaQuestions[qaI + 1], auto_correct, outcome)
               IN  /\ results' = Append(results, rc[1])
                   /\ replies' = Append(replies, outcome.reply)
                   /\ corrections' = corrections \o rc[2]
                   /\ UNCHANGED raisedAt
    /\ qaI' = qaI + 1
    /\ qaPc' = "w_loop"
    /\ UNCHANGED <<qaQuestions, auto_correct, is_running, should_stop, current_index,
                   progress>>
    /\ UNCHANGED stop_called
    /\ UNCHANGED <<lock, gpPc, gpIndex>>
    /\ UNCHANGED <<parseVars, pdfVars, corrVars, normVars, catVars>>

\* The worker leaving its loop without clearing the running flag.
WorkerEnd_still_running ==
    /\ qaPc = "w_end"
    /\ qaPc' = "w_report"
    /\ UNCHANGED <<qaQuestions, auto_correct, results, corrections, is_running,
                   should_stop, current_index, qaI, progress>>
    /\ UNCHANGED stop_called
    /\ UNCHANGED <<lock, gpPc, gpIndex>>
    /\ UNCHANGED <<replies, raisedAt>>
    /\ UNCHANGED <<parseVars, pdfVars, corrVars, normVars, catVars>>

\* Line 152.
WorkerEnd ==
    /\ qaPc = "w_end"
    /\ is_running' = FALSE
    /\ qaPc' = "w_report"
    /\ UNCHANGED <<qaQuestions, auto_correct, results, corrections, should_stop,
                   current_index, qaI, progress>>
    /\ UNCHANGED stop_called
    /\ UNCHANGED <<lock, gpPc, gpIndex>>
    /\ UNCHANGED <<replies, raisedAt>>
    /\ UNCHANGED <<parseVars, pdfVars, corrVars, normVars, catVars>>

\* Lines 154-165: the report, the corrected file, on_complete.
WorkerComplete ==
    /\ qaPc = "w_report"
    /\ qaPc' = "w_done"
    /\ cOutput' = IF corrections # << >>
                  THEN save_corrected_questions(qaQuestions, corrections)
                  ELSE cOutput
    /\ UNCHANGED <<qaQuestions, auto_correct, results, corrections, is_running,
                   should_stop, current_index, qaI, progress>>
    /\ UNCHANGED stop_called
    /\ UNCHANGED <<lock, gpPc, gpIndex>>
    /\ UNCHANGED <<replies, raisedAt>>
    /\ UNCHANGED <<parseVars, pdfVars, cQuestions, cCorrections, cPc, cArgs, cInput,
                   normVars, catVars>>

WorkerAlive ==
    qaPc \in {"w_begin", "w_loop", "w_lock", "w_index", "w_process", "w_end", "w_report"}
\* The main thread is not inside process_all or get_progress.
MainThreadFree == (qaPc = "idle" \/ WorkerAlive \/ qaPc = "w_done") /\ gpPc = "out"

\* Lines 171-173, called by the main thread.
stop_processing ==
    /\ MainThreadFree
    /\ should_stop' = TRUE
    /\ UNCHANGED <<qaQuestions, auto_correct, results, corrections, is_running,
                   current_index, qaPc, qaI, progress>>
    /\ stop_called' = (stop_called \/ WorkerAlive)
    /\ UNCHANGED <<lock, gpPc, gpIndex>>
    /\ UNCHANGED <<replies, raisedAt>>
    /\ UNCHANGED <<parseVars, pdfVars, corrVars, normVars, catVars>>

\* Line 177, called by the main thread: with self._lock, entered.
get_progress_lock ==
    /\ MainThreadFree
    /\ lock = "free"
    /\ lock' = "main"
    /\ gpPc' = "index"
    /\ UNCHANGED <<qaQuestions, auto_correct, results, corrections, is_running,
                   should_stop, current_index, qaPc, qaI, progress, gpIndex>>
    /\ UNCHANGED stop_called
    /\ UNCHANGED <<replies, raisedAt>>
    /\ UNCHANGED <<parseVars, pdfVars, corrVars, normVars, catVars>>

\* Line 178: the first element of the tuple is evaluated.
get_progress_read ==
    /\ gpPc = "index"
    /\ gpIndex' = current_index
    /\ gpPc' = "running"
    /\ UNCHANGED <<qaQuestions, auto_correct, results, corrections, is_running,
                   should_stop, current_index, qaPc, qaI, progress, lock>>
    /\ UNCHANGED stop_called
    /\ UNCHANGED <<replies, raisedAt>>
    /\ UNCHANGED <<parseVars, pdfVars, corrVars, normVars, catVars>>

\* Line 178: the other two elements, the return, the lock released.
get_progress_return ==
    /\ gpPc = "running"
    /\ progress' = <<gpIndex, Len(qaQuestions), is_running>>
    /\ lock' = "free"
    /\ gpPc' = "out"
    /\ UNCHANGED <<qaQuestions, auto_correct, results, corrections, is_running,
                   should_stop, current_index, qaPc, qaI, gpIndex>>
    /\ UNCHANGED stop_called
    /\ UNCHANGED <<replies, raisedAt>>
    /\ UNCHANGED <<parseVars, pdfVars, corrVars, normVars, catVars>>

\* Lines 175-178.
get_progress ==
    \/ get_progress_lock
    \/ get_progress_read
    \/ get_progress_return

QaNext ==
    \/ ProcessAllBegin
    \/ ProcessAllStep
    \/ ProcessAllEnd
    \/ StartBackground
    \/ WorkerBegin
    \/ WorkerNext
    \/ WorkerLock
    \/ WorkerSetIndex
    \/ WorkerProcess
    \/ WorkerEnd
    \/ WorkerComplete
    \/ stop_processing
    \/ get_progress

SpecQA == QaInit /\ [][QaNext]_vars

\* The question a result record is about.
QuestionOf(r) == CHOOSE q \in QuestionPool : q.id = r.question_id

\* C1: every result of validate follows the decision table: a matched letter
\* equal (whatever the case) to the question's correct_answer gives
\* is_correct = true and correction_type none; a matched letter that differs
\* gives is_correct = false, wrong_answer_letter and the matched letter as
\* suggested_correction; no matched letter gives is_correct = false,
\* no_correct_option and no suggested_correction.
C1_DecisionTable ==
    \A i \in DOMAIN results :
        LET r == results[i]
            m == r.solver_result.matching_letter
            same == Lower(m) = Lower(QuestionOf(r).correct_answer)
        IN  /\ (m # NoneVal /\ same) =>
                  /\ r.is_correct = TRUE
                  /\ r.correction_type = "none"
            /\ (m # NoneVal /\ ~same) =>
                  /\ r.is_correct = FALSE
                  /\ r.correction_type = "wrong_answer_letter"
                  /\ r.suggested_correction = m
            /\ m = NoneVal =>
                  /\ r.is_correct = FALSE
                  /\ r.correction_type = "no_correct_option"
                  /\ r.suggested_correction = NoneVal

\* Two results: a letter matched against a correct_answer written in lower
\* case, and a question for which no letter matched.
C1_Witness ==
    \E i, j \in DOMAIN results :
        /\ results[i].correction_type = "none"
        /\ QuestionOf(results[i]).correct_answer \in LowerChars
        /\ results[j].correction_type = "no_correct_option"

\* C3: a batch that ended without a cancellation has one result record for
\* every question of the input, in the input's order.
C3_EveryQuestionHasARecord ==
    (qaPc \in {"all_done", "all_raised", "w_done"} /\ ~should_stop) =>
        /\ Len(results) = Len(qaQuestions)
        /\ \A i \in DOMAIN results : results[i].question_id = qaQuestions[i].id

\* How often letter l is the provided answer of a question at most 5 places
\* before or after index i of the document, i itself left out.
NeighbourCount(l, i) ==
    Cardinality({j \in 0..(total - 1) :
                    /\ j # i /\ j >= i - 5 /\ j <= i + 5
                    /\ Document(total)[j + 1].provided_answer = l})

\* C14: the tie-break letter of a question is one of A, B, C, D, and no
\* letter is the provided answer of fewer of its neighbours.
C14_TieBreakFairness ==
    \A i \in DOMAIN pq :
        pq[i].correction_type = "option_missing" =>
            /\ pq[i].suggested_correction \in {"A", "B", "C", "D"}
            /\ \A l \in {"A", "B", "C", "D"} :
                  NeighbourCount(pq[i].suggested_correction, i - 1)
                      <= NeighbourCount(l, i - 1)

\* A question with a further question beyond its window took a tie-break
\* letter while another letter is used more often around it.
C14_Witness ==
    \E i \in DOMAIN pq :
        /\ i + 5 < total
        /\ pq[i].correction_type = "option_missing"
        /\ \E l \in {"A", "B", "C", "D"} :
              NeighbourCount(l, i - 1) > NeighbourCount(pq[i].suggested_correction, i - 1)

\* C15: a question for which the oracle returned a letter that is none of
\* its option letters ends with is_correct false, correction_type
\* option_missing and a tie-break letter as suggested_correction, whatever
\* its provided_answer.
C15_NoMatchingOption ==
    (Running \/ pdfPc \in {"judge_failed", "done"}) =>
        \A j \in EndedNow :
            LET reply == OracleReply(seed, faultAt, pq[j + 1])
            IN  (/\ reply.kind = "object"
                 /\ reply.correct_letter # Absent
                 /\ Upper(reply.correct_letter) \notin DOMAIN pq[j + 1].options) =>
                    /\ pq[j + 1].is_correct = PyFalse
                    /\ pq[j + 1].correction_type = "option_missing"
                    /\ pq[j + 1].suggested_correction \in {"A", "B", "C", "D"}

(***************************************************************************)
(* The corrector on its own: every batch of the pool with every list of at *)
(* most MaxCorrections corrections of the pool below.                      *)
(***************************************************************************)
MaxCorrections == 2
CorrectionPool ==
    { Correction("q1", "wrong_answer_letter", <<"correct_answer">>, "B", "C"),
      Correction("q1", "wrong_answer_letter", <<"correct_answer">>, "B", "A"),
      Correction("q1", "wrong_answer_text", <<"answers", "[", "B", "]", ".text">>,
                 "4", "calculated"),
      Correction("q2", "wrong_answer_text", <<"answers", "[", "C", "]", ".text">>,
                 "y", "z"),
      Correction("q2", "wrong_question", <<"question">>, "text of q2", "reworded"),
      Correction("q3", "wrong_answer_text", <<"answers", "[", "D", "]", ".text">>,
                 "", "calculated"),
      Correction("q3", "wrong_answer_text", <<"correct_answer">>, "D", "A") }
CorrectionLists == UNION {[1..n -> CorrectionPool] : n \in 0..MaxCorrections}

CorrInit ==
    /\ ParseIdle
    /\ PdfIdle
    /\ QaIdle
    /\ NormIdle
    /\ CatIdle
    /\ cQuestions \in Batches
    /\ cCorrections \in CorrectionLists
    /\ cPc = "ready"
    /\ cArgs = <<0, 0>>
    /\ cInput = cQuestions
    /\ cOutput = << >>

\* corrector.py lines 12-37 on one question and one correction of the lists.
ApplyCorrection ==
    /\ cPc = "ready"
    /\ \E i \in DOMAIN cQuestions, j \in DOMAIN cCorrections :
          /\ cArgs' = <<i, j>>
          /\ IF ApplyRaises(cCorrections[j])
             THEN /\ cPc' = "apply_raised"
                  /\ UNCHANGED <<cInput, cOutput>>
             ELSE LET r == apply_correction(cQuestions[i], cCorrections[j])
                  IN  /\ cPc' = "applied"
                      /\ cInput' = [cInput EXCEPT ![i] = r.input]
                      /\ cOutput' = <<r.returned>>
    /\ UNCHANGED <<cQuestions, cCorrections>>
    /\ UNCHANGED <<parseVars, pdfVars, qaVars, normVars, catVars>>

\* corrector.py lines 39-74.
SaveCorrected ==
    /\ cPc = "ready"
    /\ cArgs' = <<0, 0>>
    /\ IF SaveRaises(cQuestions, cCorrections)
       THEN cPc' = "save_raised" /\ UNCHANGED cOutput
       ELSE /\ cPc' = "saved"
            /\ cOutput' = save_corrected_questions(cQuestions, cCorrections)
    /\ UNCHANGED <<cQuestions, cCorrections, cInput>>
    /\ UNCHANGED <<parseVars, pdfVars, qaVars, normVars, catVars>>

CorrNext ==
    \/ ApplyCorrection
    \/ SaveCorrected

SpecCorr == CorrInit /\ [][CorrNext]_vars

\* The letters of a question's answers, in order.
LettersOf(q) == [k \in DOMAIN q.answers |-> q.answers[k].letter]
\* The answers of out whose text is not the one they have in q.
ChangedAnswers(q, out) == {k \in DOMAIN q.answers : out.answers[k] # q.answers[k]}

\* The correction names the text of the answer with this letter, in either
\* case.
Targets(c, letter) ==
    \E l \in {Upper(letter), Lower(letter)} :
        c.field_to_correct = <<"answers", "[", l, "]", ".text">>

\* C16: apply_correction leaves its argument as it was, and the question it
\* returns differs from the argument in at most the field the correction
\* targets: correct_answer, the text of the one answer with the targeted
\* letter, or the question text.
C16_CorrectionPurity ==
    /\ cPc \in {"applied", "apply_raised"} => cInput = cQuestions
    /\ cPc = "applied" =>
          LET q == cQuestions[cArgs[1]]
              c == cCorrections[cArgs[2]]
              out == cOutput[1]
          IN  /\ DOMAIN out = DOMAIN q
              /\ LettersOf(out) = LettersOf(q)
              /\ out.id = q.id /\ out.category = q.category
              /\ out.correct_answer # q.correct_answer =>
                    c.correction_type = "wrong_answer_letter"
              /\ out.question # q.question => c.correction_type = "wrong_question"
              /\ ChangedAnswers(q, out) # {} =>
                    /\ c.correction_type = "wrong_answer_text"
                    /\ Cardinality(ChangedAnswers(q, out)) = 1
                    /\ \A k \in ChangedAnswers(q, out) :
                          /\ Targets(c, q.answers[k].letter)
                          /\ out.answers[k].letter = q.answers[k].letter

\* A correction of an answer's text was applied and changed that text.
C16_Witness ==
    /\ cPc = "applied"
    /\ cCorrections[cArgs[2]].correction_type = "wrong_answer_text"
    /\ ChangedAnswers(cQuestions[cArgs[1]], cOutput[1]) # {}

\* The positions in the corrections list of the corrections of kind t for
\* question q.
CorrectionsFor(q, t) ==
    {j \in DOMAIN cCorrections :
        cCorrections[j].question_id = q.id /\ cCorrections[j].correction_type = t}
Last(S) == CHOOSE j \in S : \A k \in S : k <= j

\* C17: save_corrected_questions returns a list of the input's length and
\* order; a field several corrections of a question target holds the
\* new_value of the last of them in list order, and a question with no
\* correction is returned unchanged.
C17_LastWriteWins ==
    cPc = "saved" =>
        /\ Len(cOutput) = Len(cQuestions)
        /\ \A i \in DOMAIN cQuestions :
              LET q == cQuestions[i]
                  out == cOutput[i]
                  letters == CorrectionsFor(q, "wrong_answer_letter")
                  texts == CorrectionsFor(q, "wrong_question")
              IN  /\ out.id = q.id
                  /\ (\A j \in DOMAIN cCorrections : cCorrections[j].question_id # q.id)
                        => out = q
                  /\ out.correct_answer =
                        IF letters = {} THEN q.correct_answer
                        ELSE cCorrections[Last(letters)].new_value
                  /\ out.question =
                        IF texts = {} THEN q.question
                        ELSE cCorrections[Last(texts)].new_value
                  /\ LettersOf(out) = LettersOf(q)
                  /\ \A k \in DOMAIN q.answers :
                        LET mine == {j \in CorrectionsFor(q, "wrong_answer_text") :
                                        Targets(cCorrections[j], q.answers[k].letter)}
                        IN  out.answers[k].text =
                                IF mine = {} THEN q.answers[k].text
                                ELSE cCorrections[Last(mine)].new_value

\* Two corrections of the same field of a question of the list, with
\* different new values, next to a question without correction.
C17_Witness ==
    /\ cPc = "saved"
    /\ Len(cCorrections) >= 2
    /\ cCorrections[1].correction_type = "wrong_answer_letter"
    /\ cCorrections[2].correction_type = "wrong_answer_letter"
    /\ cCorrections[1].new_value # cCorrections[2].new_value
    /\ \E i, k \in DOMAIN cQuestions :
          /\ cQuestions[i].id = cCorrections[1].question_id
          /\ cQuestions[k].id # cCorrections[1].question_id

\* The answers of q whose letter is the marked correct answer of result r.
MarkedAnswers(r, q) ==
    {k \in DOMAIN q.answers : Lower(q.answers[k].letter) = Lower(q.correct_answer)}

\* What the claim lets generate_correction return for result r.
RECURSIVE ExpectedCorrections(_)
ExpectedCorrections(rs) ==
    IF rs = << >> THEN << >>
    ELSE LET r == Head(rs)
             q == QuestionOf(r)
             k == CHOOSE k \in MarkedAnswers(r, q) : \A m \in MarkedAnswers(r, q) : k <= m
             mine ==
                 IF r.correction_type = "wrong_answer_letter"
                 THEN <<Correction(q.id, "wrong_answer_letter", <<"correct_answer">>,
                                   Upper(q.correct_answer), r.suggested_correction)>>
                 ELSE IF r.correction_type = "no_correct_option" /\ MarkedAnswers(r, q) # {}
                 THEN <<Correction(q.id, "wrong_answer_text",
                                   <<"answers", "[", Upper(q.correct_answer), "]", ".text">>,
                                   q.answers[k].text, r.solver_result.calculated_answer)>>
                 ELSE << >>
         IN  mine \o ExpectedCorrections(Tail(rs))

\* C18: generate_correction gives for a wrong_answer_letter result the
\* correction of correct_answer from the original to the suggested letter,
\* for a no_correct_option result the correction of the text of the answer
\* marked correct (none when no answer has that letter), and nothing for a
\* correct result; applying the corrections leaves every question's answer
\* letters as they were.
C18_GeneratedCorrections ==
    /\ corrections = IF auto_correct THEN ExpectedCorrections(results) ELSE << >>
    /\ (qaPc \in {"all_done", "w_done"} /\ corrections # << >>) =>
          /\ Len(cOutput) = Len(qaQuestions)
          /\ \A i \in DOMAIN qaQuestions : LettersOf(cOutput[i]) = LettersOf(qaQuestions[i])

\* A finished batch with a correction of an answer's text, and a
\* no_correct_option result whose question has no answer with the marked
\* letter.
C18_Witness ==
    /\ qaPc = "all_done"
    /\ \E j \in DOMAIN corrections : corrections[j].correction_type = "wrong_answer_text"
    /\ \E i \in DOMAIN results :
          /\ results[i].correction_type = "no_correct_option"
          /\ MarkedAnswers(results[i], QuestionOf(results[i])) = {}
    /\ \E i \in DOMAIN cOutput : cOutput[i] # qaQuestions[i]

\* C19: once stop_processing has been called after the thread was started,
\* the worker begins no further question: it never goes from the head of its
\* loop on to the body of the loop.
C19_CooperativeCancellation ==
    [][stop_called => ~(qaPc = "w_loop" /\ qaPc' = "w_lock")]_vars

\* The oracle's reply, or its caught failure, is recorded in the question.
ReplyRecorded(q) == q.calculated_answer # NoneVal \/ q.confidence = "low"
\* A missing option has been given its letter.
Reconciled(q) == q.correction_type = "option_missing" => q.suggested_correction # NoneVal
\* The questions of this run that were sent and have no reply recorded.
AwaitingReply == {j \in sentNow : ~ReplyRecorded(pq[j + 1])}

\* C20: during a run at most one sent question awaits its reply, and while
\* the call for question idx is in flight every question sent before it in
\* the run has its reply recorded and its missing option reconciled, and,
\* when question idx - 1 was the tenth of a group, the checkpoint up to it is
\* on disk.
C20_StrictlySequential ==
    Running =>
        /\ Cardinality(AwaitingReply) <= 1
        /\ AwaitingReply # {} => (pdfPc = "inflight" /\ AwaitingReply = {idx})
        /\ pdfPc = "inflight" =>
              /\ sentNow = start_idx(loadedIdx)..idx
              /\ \A j \in sentNow \ {idx} :
                    ReplyRecorded(pq[j + 1]) /\ Reconciled(pq[j + 1])
              /\ (idx - 1 \in sentNow /\ idx % CheckpointEvery = 0) =>
                    /\ ckpt.state = "written"
                    /\ ckpt.last_processed_index = idx - 1
                    /\ Len(ckpt.questions) = idx

\* The call for the question after a checkpoint is in flight, and a question
\* sent earlier in the run had a missing option.
C20_Witness ==
    /\ pdfPc = "inflight"
    /\ idx = CheckpointEvery
    /\ idx - 1 \in sentNow
    /\ \E j \in sentNow \ {idx} : pq[j + 1].correction_type = "option_missing"

\* C21: every write of the worker to the current index and to the running
\* flag is made while the worker holds the lock, every read of get_progress
\* is made while the main thread holds it, and the triple get_progress
\* returns is the one the processor holds at the moment of the return.
C21_ProgressUnderMutex ==
    [][/\ (WorkerAlive /\ (current_index' # current_index \/ is_running' # is_running))
              => lock = "worker"
       /\ (gpIndex' # gpIndex \/ progress' # progress) => lock = "main"
       /\ progress' # progress
              => progress' = <<current_index, Len(qaQuestions), is_running>>]_vars

\* The file is a complete checkpoint of the questions 0..last.
Covers(file, last) ==
    /\ file.state = "written"
    /\ file.last_processed_index = last
    /\ Len(file.questions) = last + 1

\* C22: the round trip of question idx is followed by a checkpoint exactly
\* when idx + 1 is a multiple of 10, that checkpoint covers 0..idx, the
\* checkpoint written after the loop covers every question, every
\* checkpoint on disk holds judged questions only, and when the run has
\* returned normally there is no checkpoint file.
C22_CheckpointLifecycle ==
    [][/\ (pdfPc = "inflight" /\ pdfPc' \in {"loop", "ckpt_open"})
              => (pdfPc' = "ckpt_open" <=> (idx + 1) % CheckpointEvery = 0)
       /\ (pdfPc = "ckpt_write" /\ pdfPc' = "loop") => Covers(ckpt', idx)
       /\ (pdfPc = "final_write" /\ pdfPc' = "report") => Covers(ckpt', total - 1)
       /\ ckpt'.state = "written"
              => \A i \in DOMAIN ckpt'.questions :
                    /\ ReplyRecorded(load_checkpoint(ckpt')[2][i])
                    /\ (i - 1) \in judgedBefore' \cup sentNow'
       /\ pdfPc' = "done" => ckpt' = NoFile]_vars

\* A run that wrote the checkpoint of the tenth question and the final one
\* has returned.
C22_Witness ==
    /\ pdfPc = "done"
    /\ total > CheckpointEvery
    /\ (CheckpointEvery - 1) \in sentNow
    /\ ckpt = NoFile

\* C23: after a crash at any point of a run, a new run with resume enabled
\* loads the checkpoint state left behind and enters its loop.
C23_CrashRecoverable ==
    [][(pdfPc = "crashed" /\ pdfPc' # "crashed" /\ resume') => pdfPc' = "loop"]_vars

\* The current run resumed from a checkpoint that covers every question.
ResumedComplete ==
    /\ (Running \/ pdfPc = "done")
    /\ resume
    /\ loadedIdx >= 0
    /\ loadedIdx = total - 1

\* C24: a run that starts from a checkpoint whose last_processed_index is
\* total - 1 sends no question to the oracle, keeps the checkpointed records
\* as its questions up to its result, and has removed the checkpoint when it
\* returns.
C24_FullCheckpointIsCompletion ==
    [][/\ ResumedComplete' => sentNow' = {}
       /\ (ResumedComplete' /\ ckpt'.state = "written")
              => pq' = load_checkpoint(ckpt')[2]
       /\ (ResumedComplete /\ ResumedComplete') => pq' = pq
       /\ (ResumedComplete' /\ pdfPc' = "done") => ckpt' = NoFile]_vars

\* Such a run has returned, and its records are judged ones.
C24_Witness ==
    /\ ResumedComplete
    /\ pdfPc = "done"
    /\ total > CheckpointEvery
    /\ \A i \in DOMAIN pq : ReplyRecorded(pq[i])
    /\ \E i \in DOMAIN pq : pq[i].is_correct = PyFalse

LetterInputs ==
    (DOMAIN GlyphTable) \cup UpperChars \cup LowerChars \cup Digits \cup {"", "?", " "}

NormInit ==
    /\ ParseIdle
    /\ PdfIdle
    /\ QaIdle
    /\ CorrIdle
    /\ CatIdle
    /\ nInput \in LetterInputs
    /\ nPc = "ready"
    /\ nOnce = NoneVal
    /\ nTwice = NoneVal

NormalizeOnce ==
    /\ nPc = "ready"
    /\ nOnce' = normalize_letter(nInput)
    /\ nPc' = "once"
    /\ UNCHANGED <<nInput, nTwice>>
    /\ UNCHANGED <<parseVars, pdfVars, qaVars, corrVars, catVars>>

NormalizeTwice ==
    /\ nPc = "once"
    /\ nTwice' = normalize_letter(nOnce)
    /\ nPc' = "twice"
    /\ UNCHANGED <<nInput, nOnce>>
    /\ UNCHANGED <<parseVars, pdfVars, qaVars, corrVars, catVars>>

NormNext ==
    \/ NormalizeOnce
    \/ NormalizeTwice

SpecNorm == NormInit /\ [][NormNext]_vars

\* C26: normalize_letter maps every glyph of its table to one of A, B, C, D,
\* and normalizing a normalized value changes nothing.
C26_NormalizationClosure ==
    /\ (nPc \in {"once", "twice"} /\ nInput \in DOMAIN GlyphTable)
          => nOnce \in {"A", "B", "C", "D"}
    /\ nPc = "twice" => nTwice = nOnce

\* A glyph or a lower-case letter has been normalized twice.
C26_Witness ==
    /\ nPc = "twice"
    /\ nInput \in (DOMAIN GlyphTable) \cup LowerChars
    /\ nOnce # nInput

\* The scan is at an "Answer Key" heading with a question in progress that
\* has text and at least one option.
HeadingWithQuestion ==
    /\ Scanning
    /\ text[lineNo].k = "AnswerKey"
    /\ Truthy(current_question)
    /\ current_options # EmptyMap

\* The step appends the question in progress after the questions emitted so
\* far.
EmitsCurrent ==
    /\ Len(questions') = Len(questions) + 1
    /\ LET q == questions'[Len(questions')]
       IN  /\ q.number = question_num
           /\ q.text = current_question
           /\ q.options = current_options
           /\ q.category = current_category

\* Up to the return no emitted question is removed, moved or renamed.
KeepsEmitted ==
    parsePc' # "begin" =>
        /\ Len(questions') >= Len(questions)
        /\ \A i \in DOMAIN questions :
              /\ questions'[i].number = questions[i].number
              /\ questions'[i].text = questions[i].text

\* C27 as stated: an "Answer Key" heading met while a question with text and
\* an option is in progress puts that question into the returned sequence,
\* after the questions emitted before it.
C27_HeadingFlushesQuestion ==
    [][(HeadingWithQuestion => EmitsCurrent) /\ KeepsEmitted]_vars

\* C27, for a question in progress whose number is positive.
C27_HeadingFlushesNumberedQuestion ==
    [][((HeadingWithQuestion /\ question_num > 0) => EmitsCurrent) /\ KeepsEmitted]_vars

\* The parse has returned a question that was flushed at an "Answer Key"
\* heading.
C27_Witness ==
    /\ parsePc = "done"
    /\ \E i \in DOMAIN text :
          /\ text[i].k = "AnswerKey"
          /\ i > 2
          /\ text[i - 1].k = "Option"
          /\ text[i - 2].k = "Question" /\ text[i - 2].n > 0
    /\ \E j \in DOMAIN questions : questions[j].number = 2

\* The numbered lines scanned so far outside answer-key blocks.
OpenedSoFar ==
    {j \in DOMAIN text : j < lineNo /\ IsNumbered(text[j]) /\ ~InKeySection(text, j)}

\* C28: every question block opened by a numbered line is emitted at most
\* once: the sequence never holds more questions than numbered lines were
\* scanned outside answer-key blocks.
C28_NoDuplicateEmission ==
    parsePc \in {"scan", "done"} => Len(questions) <= Cardinality(OpenedSoFar)

\* C29: a line scanned inside the answer-key block opens no question, adds
\* no option, extends no question text and writes no answer-key entry, and
\* the scanner is outside the block after it exactly when the line is a
\* "Test N" heading.
C29_AnswerKeyBlockState ==
    [][(Scanning /\ in_answer_key) =>
          /\ question_num' = question_num
          /\ current_question' = current_question
          /\ current_options' = current_options
          /\ answer_key' = answer_key
          /\ \A i \in DOMAIN questions : questions'[i] = questions[i]
          /\ in_answer_key' = (text[lineNo].k # "Test")]_vars

\* The scan has passed a numbered line, an option or a "Correct Answer"
\* line inside the block and then left the block at a "Test N" heading.
C29_Witness ==
    /\ parsePc = "scan"
    /\ ~in_answer_key
    /\ lineNo > 2
    /\ text[lineNo - 1].k = "Test"
    /\ InKeySection(text, lineNo - 1)
    /\ text[lineNo - 2].k \in {"KeyEntry", "InlineNumbered", "Question", "Option",
                               "CorrectAnswer"}
    /\ InKeySection(text, lineNo - 2)

\* The line under the scan opens a new question.
OpensQuestion == ~in_answer_key /\ IsNumbered(text[lineNo])

\* C30: once the current question has an option, a scanned line that is
\* neither an option nor the numbered line opening the next question
\* changes neither the question's text nor its recorded options, in the
\* question in progress and in the questions already emitted.
C30_OptionsEndContinuation ==
    [][(/\ Scanning
        /\ current_options # EmptyMap
        /\ text[lineNo].k # "Option"
        /\ ~OpensQuestion) =>
          /\ current_question' = current_question
          /\ current_options' = current_options
          /\ \A i \in DOMAIN questions :
                /\ questions'[i].text = questions[i].text
                /\ questions'[i].options = questions[i].options]_vars

\* A text line has been scanned after an option of a question with text.
C30_Witness ==
    /\ parsePc = "scan"
    /\ ~in_answer_key
    /\ lineNo > 3
    /\ text[lineNo - 1].k = "Text"
    /\ text[lineNo - 2].k = "Option"
    /\ Truthy(current_question)
    /\ current_options # EmptyMap

(***************************************************************************)
(* The category test of lines 164-179 on its own: the rest of a numbered   *)
(* line is a list of at most MaxWords words of the vocabulary below,       *)
(* separated by one space.                                                 *)
(***************************************************************************)
MaxWords == 4
Vocabulary ==
    { <<"M", "a", "t", "h", "e", "m", "a", "t", "i", "c", "s">>,
      <<"M", "e", "c", "h", "a", "n", "i", "c", "s">>,
      <<"S", "t", "a", "t", "i", "c", "s">>,
      <<"s", "t", "a", "t", "i", "c", "s">>,
      <<"L", "i", "f", "t">>,
      <<"W", "h", "a", "t">>,
      <<"B", "2">> }
Rests == UNION {[1..n -> Vocabulary] : n \in 0..MaxWords}

\* " ".join(words)
RECURSIVE JoinWords(_)
JoinWords(ws) ==
    IF ws = << >> THEN << >>
    ELSE IF Len(ws) = 1 THEN ws[1]
    ELSE ws[1] \o <<" ">> \o JoinWords(Tail(ws))

CatInit ==
    /\ ParseIdle
    /\ PdfIdle
    /\ QaIdle
    /\ CorrIdle
    /\ NormIdle
    /\ catRest \in Rests
    /\ catPc = "ready"
    /\ catLabel = FALSE

\* Lines 168-176: remaining is tested, then becomes the category or the text.
Classify ==
    /\ catPc = "ready"
    /\ catLabel' = (catRest # << >> /\ IsCategoryChars(JoinWords(catRest)))
    /\ catPc' = "classified"
    /\ UNCHANGED catRest
    /\ UNCHANGED <<parseVars, pdfVars, qaVars, corrVars, normVars>>

CatNext == Classify

SpecCat == CatInit /\ [][CatNext]_vars

\* The question-indicating words of the heuristic.
QuestionWords ==
    { <<"w", "h", "a", "t">>, <<"w", "h", "i", "c", "h">>, <<"h", "o", "w">>,
      <<"f", "i", "n", "d">>, <<"s", "o", "l", "v", "e">>,
      <<"c", "a", "l", "c", "u", "l", "a", "t", "e">>,
      <<"d", "e", "t", "e", "r", "m", "i", "n", "e">>, <<"i", "f">> }

\* C31: the rest of a numbered line is taken as a category label exactly
\* when it is non-empty, has at most 3 words, starts with an upper-case
\* letter, contains no digit and none of its words is a question-indicating
\* word; so the one-word labels "Mathematics" and "Mechanics" are
\* categories.
C31_CategoryHeuristic ==
    catPc = "classified" =>
        (catLabel <=>
            /\ Len(catRest) \in 1..3
            /\ IsUpperChar(catRest[1][1])
            /\ \A i \in DOMAIN catRest :
                  /\ \A j \in DOMAIN catRest[i] : catRest[i][j] \notin Digits
                  /\ LowerAll(catRest[i]) \notin QuestionWords)

\* The reply the matching prompt asks for when no option corresponds.
Nessuna == <<"N", "E", "S", "S", "U", "N", "A">>

\* C32: a result whose matching call was answered "NESSUNA" has no matching
\* letter and is classified no_correct_option.
C32_NoMatchReply ==
    \A i \in DOMAIN results :
        UpperAll(Strip(replies[i])) = Nessuna =>
            /\ results[i].solver_result.matching_letter = NoneVal
            /\ results[i].correction_type = "no_correct_option"

\* C33: a question of process_pdf with a suggested correction has a
\* suggestion that differs from its provided answer and is one of its own
\* option letters, the tie-break's letters included.
C33_SuggestionIsAnotherOption ==
    \A i \in DOMAIN pq :
        pq[i].suggested_correction # NoneVal =>
            /\ pq[i].suggested_correction # pq[i].provided_answer
            /\ pq[i].suggested_correction \in DOMAIN pq[i].options

\* The worker has been started and has not left its question loop.
BeforeLoopExit == qaPc \in {"w_begin", "w_loop", "w_lock", "w_index", "w_process"}

\* Questions remain to be processed and no stop was requested.
WorkRemains ==
    /\ qaQuestions # << >>
    /\ (qaPc = "w_begin" \/ qaI < Len(qaQuestions))
    /\ ~should_stop /\ ~stop_called

\* C34: a get_progress that returns after the thread was started, while
\* the worker has not left its loop, questions remain and no stop was
\* requested, reports the running flag as true.
C34_RunningFlagVisible ==
    [][(gpPc = "running" /\ gpPc' = "out" /\ BeforeLoopExit /\ WorkRemains)
          => progress'[3] = TRUE]_vars

(***************************************************************************)
(* The background run under the scheduling the code relies on: the worker  *)
(* thread keeps running (processor.py lines 124-165 hold no blocking call  *)
(* but the oracle's, which returns or raises), the main thread leaves the  *)
(* with block of get_progress (lines 177-178), and the worker waiting at   *)
(* line 134 gets the lock, which the supervisor of main.py lines 82-101    *)
(* leaves free between two polls.                                          *)
(***************************************************************************)
\* The steps of _process that wait for nothing.
WorkerStep ==
    \/ WorkerBegin
    \/ WorkerNext
    \/ WorkerSetIndex
    \/ WorkerProcess
    \/ WorkerEnd
    \/ WorkerComplete

WorkerFairness ==
    /\ WF_vars(WorkerStep)
    /\ SF_vars(WorkerLock)
    /\ WF_vars(get_progress_read \/ get_progress_return)

\* The file of the run: the first n questions of q1, q2, q3, q1, ...
LoadedBatch(n) ==
    [i \in 1..n |-> CHOOSE q \in QuestionPool :
                        q.id = <<"q1", "q2", "q3">>[((i - 1) % 3) + 1]]

\* run_background of main.py: the processor is built and the file loaded.
LiveInit ==
    /\ QaInit
    /\ \E n \in 0..MaxBatch : qaQuestions = LoadedBatch(n)

LiveNext ==
    \/ StartBackground
    \/ WorkerStep
    \/ WorkerLock
    \/ stop_processing
    \/ get_progress

SpecQALive == LiveInit /\ [][LiveNext]_vars /\ WorkerFairness

\* The worker has invoked on_complete (line 165) with the running flag false.
RunCompleted == qaPc = "w_done" /\ ~is_running

\* The positions of the questions the run processed without raising.
RECURSIVE ProcessedIds(_)
ProcessedIds(n) ==
    IF n = 0 THEN << >>
    ELSE IF n \in raisedAt THEN ProcessedIds(n - 1)
         ELSE Append(ProcessedIds(n - 1), qaQuestions[n].id)

====
